---- MODULE Spec2Model ----
(***************************************************************************)
(* The repository-scan pipeline of the Gemini code reviewer: URL parsing,  *)
(* tree discovery, file classification, the per-file fetch/review loop and *)
(* its progress, error and summary state.  Two root components drive the   *)
(* pipeline: MainApp (src/MainApp.tsx) and the earlier App (src/App.tsx).  *)
(*                                                                         *)
(* Specifications.  Spec is the scan, in either root component; LiveSpec   *)
(* is Spec with every network operation settling in the end; CallSpec      *)
(* applies the pure functions to inputs of their own; KeySpec is MainApp's *)
(* API key, its settings tab and the effect that keeps them in step.       *)
(*                                                                         *)
(* Texts.  A JavaScript string is a sequence of units.  A unit is a single *)
(* character ("a", ".", "\n") wherever the program inspects the text       *)
(* (paths, URLs, base64 payloads, model replies, SDK error messages).  A   *)
(* literal message of the source that is only ever produced, never taken   *)
(* apart, is kept as one unit ("Repository not found. ...").  Such a unit  *)
(* holds a letter, so it is no whitespace and equals no single character.  *)
(***************************************************************************)
EXTENDS Integers, Sequences, FiniteSets, TLC

\* ------------------------------------------------------------------ texts

\* JavaScript null (and undefined), as a value of the text domain.
NULL == <<"<null>">>

\* A property inherited from Object.prototype: a truthy value that is no string.
OBJECT == <<"<object>">>

WhiteSpace == {" ", "\t", "\n", "\r", "\f"}

UpperCase ==
    << "A", "B", "C", "D", "E", "F", "G", "H", "I", "J", "K", "L", "M", "N", "O", "P", "Q",
       "R", "S", "T", "U", "V", "W", "X", "Y", "Z" >>
LowerCase ==
    << "a", "b", "c", "d", "e", "f", "g", "h", "i", "j", "k", "l", "m", "n", "o", "p", "q",
       "r", "s", "t", "u", "v", "w", "x", "y", "z" >>

toLowerCaseUnit(c) ==
    IF \E k \in 1..Len(UpperCase) : UpperCase[k] = c
    THEN LowerCase[CHOOSE k \in 1..Len(UpperCase) : UpperCase[k] = c]
    ELSE c

toLowerCase(s) == [k \in 1..Len(s) |-> toLowerCaseUnit(s[k])]

\* The units of s at positions from..to that exist (positions start at 1).
slice(s, from, to) ==
    LET last == IF to < Len(s) THEN to ELSE Len(s)
    IN  IF from > last THEN <<>> ELSE [k \in 1..(last - from + 1) |-> s[from + k - 1]]

RECURSIVE trimStart(_)
trimStart(s) ==
    IF s # <<>> /\ Head(s) \in WhiteSpace THEN trimStart(Tail(s)) ELSE s

RECURSIVE trimEnd(_)
trimEnd(s) ==
    IF s # <<>> /\ s[Len(s)] \in WhiteSpace
    THEN trimEnd(slice(s, 1, Len(s) - 1))
    ELSE s

trim(s) == trimEnd(trimStart(s))

\* The characters of s before the first sep (all of s when there is none).
RECURSIVE upTo(_, _)
upTo(s, sep) ==
    IF s = <<>> \/ Head(s) = sep THEN <<>> ELSE <<Head(s)>> \o upTo(Tail(s), sep)

\* String.prototype.split with a one-character separator.
RECURSIVE split(_, _)
split(s, sep) ==
    LET first == upTo(s, sep)
    IN  IF Len(first) = Len(s)
        THEN <<first>>
        ELSE <<first>> \o split(slice(s, Len(first) + 2, Len(s)), sep)

\* Array.prototype.pop on a non-empty array: its last element.
pop(a) == a[Len(a)]

includes(s, sub) ==
    \E k \in 1..(Len(s) - Len(sub) + 1) : slice(s, k, k + Len(sub) - 1) = sub

startsWith(s, prefix) ==
    slice(s, 1, Len(prefix)) = prefix

\* --------------------------------------------------------- classification

\* constants.ts as imported by App.tsx.
REVIEWABLE_EXTENSIONS ==
    { <<".", "j", "s">>, <<".", "j", "s", "x">>, <<".", "t", "s">>, <<".", "t", "s", "x">>,
      <<".", "p", "y">>, <<".", "j", "a", "v", "a">>, <<".", "c", "p", "p">>, <<".", "h">>,
      <<".", "h", "p", "p">>, <<".", "c", "s">>, <<".", "g", "o">>, <<".", "r", "s">>,
      <<".", "r", "b">>, <<".", "p", "h", "p">>, <<".", "s", "w", "i", "f", "t">>,
      <<".", "k", "t">>, <<".", "s", "q", "l">>, <<".", "h", "t", "m", "l">>,
      <<".", "c", "s", "s">>, <<".", "s", "c", "s", "s">>, <<".", "l", "e", "s", "s">>,
      <<".", "v", "u", "e">>, <<".", "s", "v", "e", "l", "t", "e">>, <<".", "m", "d">>,
      <<".", "j", "s", "o", "n">>, <<".", "y", "a", "m", "l">>, <<".", "y", "m", "l">>,
      <<".", "s", "h">>, <<".", "b", "a", "s", "h">>, <<".", "t", "o", "m", "l">>,
      <<".", "x", "m", "l">>, <<".", "e", "n", "v", ".", "e", "x", "a", "m", "p", "l", "e">>,
      <<".", "g", "i", "t", "i", "g", "n", "o", "r", "e">> }

REVIEWABLE_FILENAMES ==
    { <<"d", "o", "c", "k", "e", "r", "f", "i", "l", "e">>,
      <<"m", "a", "k", "e", "f", "i", "l", "e">>, <<"g", "e", "m", "f", "i", "l", "e">>,
      <<"p", "a", "c", "k", "a", "g", "e", ".", "j", "s", "o", "n">>,
      <<"c", "o", "m", "p", "o", "s", "e", "r", ".", "j", "s", "o", "n">>,
      <<"r", "e", "q", "u", "i", "r", "e", "m", "e", "n", "t", "s", ".", "t", "x", "t">> }

isReviewableFileByExtension(filePath) ==
    LET lowerFilePath == toLowerCase(filePath)
        extension     == <<".">> \o pop(split(lowerFilePath, "."))
        filename      == pop(split(lowerFilePath, "/"))
    IN  \/ filename \in REVIEWABLE_FILENAMES
        \/ extension \in REVIEWABLE_EXTENSIONS

\* constants.ts as imported by MainApp.tsx: pairs <<key, language>>.
LANGUAGE_MAP ==
    {  <<<<".", "j", "s">>, <<"JavaScript">>>>,
       <<<<".", "j", "s", "x">>, <<"JavaScript">>>>,
       <<<<".", "m", "j", "s">>, <<"JavaScript">>>>,
       <<<<".", "c", "j", "s">>, <<"JavaScript">>>>,
       <<<<".", "t", "s">>, <<"TypeScript">>>>,
       <<<<".", "t", "s", "x">>, <<"TypeScript">>>>,
       <<<<".", "p", "y">>, <<"Python">>>>,
       <<<<".", "j", "a", "v", "a">>, <<"Java">>>>,
       <<<<".", "c", "p", "p">>, <<"C++">>>>,
       <<<<".", "c">>, <<"C">>>>,
       <<<<".", "h">>, <<"C">>>>,
       <<<<".", "h", "p", "p">>, <<"C++">>>>,
       <<<<".", "c", "s">>, <<"C#">>>>,
       <<<<".", "g", "o">>, <<"Go">>>>,
       <<<<".", "r", "s">>, <<"Rust">>>>,
       <<<<".", "r", "b">>, <<"Ruby">>>>,
       <<<<".", "p", "h", "p">>, <<"PHP">>>>,
       <<<<".", "s", "w", "i", "f", "t">>, <<"Swift">>>>,
       <<<<".", "k", "t">>, <<"Kotlin">>>>,
       <<<<".", "s", "q", "l">>, <<"SQL">>>>,
       <<<<".", "h", "t", "m", "l">>, <<"HTML">>>>,
       <<<<".", "c", "s", "s">>, <<"CSS">>>>,
       <<<<".", "s", "c", "s", "s">>, <<"CSS">>>>,
       <<<<".", "l", "e", "s", "s">>, <<"CSS">>>>,
       <<<<".", "s", "h">>, <<"Shell">>>>,
       <<<<".", "b", "a", "s", "h">>, <<"Shell">>>>,
       <<<<".", "j", "s", "o", "n">>, <<"JSON">>>>,
       <<<<".", "y", "a", "m", "l">>, <<"YAML">>>>,
       <<<<".", "y", "m", "l">>, <<"YAML">>>>,
       <<<<".", "x", "m", "l">>, <<"XML">>>>,
       <<<<".", "m", "d">>, <<"Markdown">>>>,
       <<<<".", "d", "a", "r", "t">>, <<"Dart">>>>,
       <<<<".", "l", "u", "a">>, <<"Lua">>>>,
       <<<<".", "p", "l">>, <<"Perl">>>>,
       <<<<".", "s", "v", "e", "l", "t", "e">>, <<"Svelte">>>>,
       <<<<".", "v", "u", "e">>, <<"Vue">>>>,
       <<<<".", "t", "f">>, <<"Terraform">>>>,
       <<<<".", "h", "c", "l">>, <<"Terraform">>>>,
       <<<<".", "g", "r", "a", "d", "l", "e">>, <<"Groovy">>>>,
       <<<<"d", "o", "c", "k", "e", "r", "f", "i", "l", "e">>, <<"Dockerfile">>>>,
       <<<<"m", "a", "k", "e", "f", "i", "l", "e">>, <<"Makefile">>>>,
       <<<<"g", "e", "m", "f", "i", "l", "e">>, <<"Ruby">>>>,
       <<<<"p", "i", "p", "f", "i", "l", "e">>, <<"TOML">>>>,
       <<<<"r", "e", "q", "u", "i", "r", "e", "m", "e", "n", "t", "s", ".", "t", "x", "t">>, <<"Text">>>>,
       <<<<"p", "a", "c", "k", "a", "g", "e", ".", "j", "s", "o", "n">>, <<"JSON">>>>,
       <<<<"p", "a", "c", "k", "a", "g", "e", "-", "l", "o", "c", "k", ".", "j", "s", "o", "n">>, <<"JSON">>>>,
       <<<<"y", "a", "r", "n", ".", "l", "o", "c", "k">>, <<"YAML">>>>,
       <<<<"c", "o", "m", "p", "o", "s", "e", "r", ".", "j", "s", "o", "n">>, <<"JSON">>>>,
       <<<<".", "g", "i", "t", "i", "g", "n", "o", "r", "e">>, <<"Git">>>>,
       <<<<".", "d", "o", "c", "k", "e", "r", "i", "g", "n", "o", "r", "e">>, <<"Git">>>>,
       <<<<"j", "e", "n", "k", "i", "n", "s", "f", "i", "l", "e">>, <<"Groovy">>>>,
       <<<<"p", "r", "o", "c", "f", "i", "l", "e">>, <<"Text">>>>,
       <<<<".", "e", "n", "v">>, <<"Text">>>>,
       <<<<".", "e", "n", "v", ".", "e", "x", "a", "m", "p", "l", "e">>, <<"Text">>>> }

\* LANGUAGE_MAP is an object literal: a lookup also finds what the object
\* inherits.  These are the inherited keys a lower-cased filename can spell.
ObjectPrototypeKeys ==
    { <<"c", "o", "n", "s", "t", "r", "u", "c", "t", "o", "r">>,
      <<"_", "_", "p", "r", "o", "t", "o", "_", "_">> }

\* LANGUAGE_MAP[key]: the mapped language, an inherited object, or NULL.
LanguageMapLookup(key) ==
    IF \E e \in LANGUAGE_MAP : e[1] = key
    THEN (CHOOSE e \in LANGUAGE_MAP : e[1] = key)[2]
    ELSE IF key \in ObjectPrototypeKeys THEN OBJECT ELSE NULL

\* Fault: the path is not lower-cased.
getLanguageForFile_Faulty(filePath) ==
    LET filename  == pop(split(filePath, "/"))
        extension == <<".">> \o pop(split(filename, "."))
    IN  IF LanguageMapLookup(filename) # NULL
        THEN LanguageMapLookup(filename)
        ELSE IF LanguageMapLookup(extension) # NULL
             THEN LanguageMapLookup(extension)
             ELSE NULL

getLanguageForFile(filePath) ==
    LET lowerFilePath == toLowerCase(filePath)
        filename      == pop(split(lowerFilePath, "/"))
        extension     == <<".">> \o pop(split(filename, "."))
    IN  IF LanguageMapLookup(filename) # NULL
        THEN LanguageMapLookup(filename)
        ELSE IF LanguageMapLookup(extension) # NULL
             THEN LanguageMapLookup(extension)
             ELSE NULL

isReviewableFile(filePath) == getLanguageForFile(filePath) # NULL

\* ----------------------------------------------------------- URL handling

HttpsGithubPrefix == <<"h", "t", "t", "p", "s", ":", "/", "/", "g", "i", "t", "h", "u", "b", ".", "c", "o", "m", "/">>

\* GITHUB_URL_REGEX.test(url): ^https://github\.com/[^/]+/[^/]+(/)?$
GITHUB_URL_REGEX_test(url) ==
    /\ startsWith(url, HttpsGithubPrefix)
    /\ LET rest  == slice(url, Len(HttpsGithubPrefix) + 1, Len(url))
           parts == split(rest, "/")
       IN  /\ Len(parts) \in {2, 3}
           /\ parts[1] # <<>>
           /\ parts[2] # <<>>
           /\ Len(parts) = 3 => parts[3] = <<>>

GithubPrefix == <<"g", "i", "t", "h", "u", "b", ".", "c", "o", "m", "/">>

\* Fault: the owner part may be empty ([^/]* for the first [^/]+).
RepoRegexMatchesAt_Faulty(url, p) ==
    /\ slice(url, p, p + Len(GithubPrefix) - 1) = GithubPrefix
    /\ LET rest  == slice(url, p + Len(GithubPrefix), Len(url))
           first == upTo(rest, "/")
       IN  /\ Len(rest) > Len(first) + 1
           /\ rest[Len(first) + 2] # "/"

\* Whether GITHUB_REPO_REGEX, github\.com/([^/]+/[^/]+), matches at position p.
RepoRegexMatchesAt(url, p) ==
    /\ slice(url, p, p + Len(GithubPrefix) - 1) = GithubPrefix
    /\ LET rest  == slice(url, p + Len(GithubPrefix), Len(url))
           first == upTo(rest, "/")
       IN  /\ first # <<>>
           /\ Len(rest) > Len(first) + 1
           /\ rest[Len(first) + 2] # "/"

\* Fault: the second part runs to the end of the text (.+ for [^/]+) and is
\* returned whole.
parseGitHubUrl_Faulty(url) ==
    LET hits == {p \in 1..Len(url) : RepoRegexMatchesAt(url, p)}
    IN  IF hits = {}
        THEN <<>>
        ELSE LET p      == CHOOSE q \in hits : \A r \in hits : q <= r
                 rest   == slice(url, p + Len(GithubPrefix), Len(url))
                 first  == upTo(rest, "/")
             IN  <<first, slice(rest, Len(first) + 2, Len(rest))>>

\* parseGitHubUrl: <<owner, repo>>, or <<>> for null.
parseGitHubUrl(url) ==
    LET hits == {p \in 1..Len(url) : RepoRegexMatchesAt(url, p)}
    IN  IF hits = {}
        THEN <<>>
        ELSE LET p      == CHOOSE q \in hits : \A r \in hits : q <= r
                 rest   == slice(url, p + Len(GithubPrefix), Len(url))
                 first  == upTo(rest, "/")
                 second == upTo(slice(rest, Len(first) + 2, Len(rest)), "/")
                 match1 == first \o <<"/">> \o second
                 parts  == split(match1, "/")
             IN  <<parts[1], parts[2]>>

\* ------------------------------------------------------------ file content

\* The base64 alphabet, in value order (value = position - 1).
Base64Alphabet ==
    << "A", "B", "C", "D", "E", "F", "G", "H", "I", "J", "K", "L", "M", "N", "O", "P", "Q",
       "R", "S", "T", "U", "V", "W", "X", "Y", "Z", "a", "b", "c", "d", "e", "f", "g", "h",
       "i", "j", "k", "l", "m", "n", "o", "p", "q", "r", "s", "t", "u", "v", "w", "x", "y",
       "z", "0", "1", "2", "3", "4", "5", "6", "7", "8", "9", "+", "/" >>

\* The printable ASCII characters, code 32 first (the grave accent, code 96,
\* cannot be written in a string literal and is named by its code).
PrintableAscii ==
    << " ", "!", "\"", "#", "$", "%", "&", "'", "(", ")", "*", "+", ",", "-", ".", "/", "0",
       "1", "2", "3", "4", "5", "6", "7", "8", "9", ":", ";", "<", "=", ">", "?", "@", "A",
       "B", "C", "D", "E", "F", "G", "H", "I", "J", "K", "L", "M", "N", "O", "P", "Q", "R",
       "S", "T", "U", "V", "W", "X", "Y", "Z", "[", "\\", "]", "^", "_", "\\x96", "a", "b", "c",
       "d", "e", "f", "g", "h", "i", "j", "k", "l", "m", "n", "o", "p", "q", "r", "s", "t",
       "u", "v", "w", "x", "y", "z", "{", "|", "}", "~" >>

\* String.fromCharCode for one byte.
fromCharCode(b) ==
    IF b \in 32..126 THEN PrintableAscii[b - 31]
    ELSE IF b = 9  THEN "\t"
    ELSE IF b = 10 THEN "\n"
    ELSE IF b = 12 THEN "\f"
    ELSE IF b = 13 THEN "\r"
    ELSE "\\x" \o ToString(b)

base64Value(c) == (CHOOSE k \in 1..Len(Base64Alphabet) : Base64Alphabet[k] = c) - 1

\* The bytes of a run of base64 digits whose length is not 1 modulo 4.
RECURSIVE base64Bytes(_)
base64Bytes(d) ==
    IF Len(d) = 0 THEN <<>>
    ELSE IF Len(d) = 2
    THEN LET n == base64Value(d[1]) * 64 + base64Value(d[2])
         IN  <<n \div 16>>
    ELSE IF Len(d) = 3
    THEN LET n == base64Value(d[1]) * 4096 + base64Value(d[2]) * 64 + base64Value(d[3])
         IN  <<n \div 1024, (n \div 4) % 256>>
    ELSE LET n == base64Value(d[1]) * 262144 + base64Value(d[2]) * 4096
                  + base64Value(d[3]) * 64 + base64Value(d[4])
         IN  <<n \div 65536, (n \div 256) % 256, n % 256>>
             \o base64Bytes(slice(d, 5, Len(d)))

\* window.atob (the forgiving-base64 decode): [ok, text].
atob(data) ==
    LET stripped == SelectSeq(data, LAMBDA c : c \notin WhiteSpace)
        n        == Len(stripped)
        unpadded ==
            IF n % 4 = 0 /\ n >= 2 /\ stripped[n] = "=" /\ stripped[n - 1] = "="
            THEN slice(stripped, 1, n - 2)
            ELSE IF n % 4 = 0 /\ n >= 1 /\ stripped[n] = "="
            THEN slice(stripped, 1, n - 1)
            ELSE stripped
        valid    ==
            /\ Len(unpadded) % 4 # 1
            /\ \A k \in 1..Len(unpadded) :
                  \E j \in 1..Len(Base64Alphabet) : Base64Alphabet[j] = unpadded[k]
    IN  IF valid
        THEN LET bytes == base64Bytes(unpadded)
             IN  [ok |-> TRUE, text |-> [k \in 1..Len(bytes) |-> fromCharCode(bytes[k])]]
        ELSE [ok |-> FALSE, text |-> <<>>]

\* response.ok of a fetch Response.
ResponseOk(status) == status \in 200..299

\* getFileContent after its request resolved with `status` and, when ok, a
\* body whose `content` is `payload`: [threw, value], value the returned text
\* or the thrown error's message.
getFileContent(path, status, payload) ==
    IF ~ResponseOk(status)
    THEN IF status = 403
         THEN [threw |-> TRUE, value |-> <<"GitHub API rate limit exceeded for this file.">>]
         ELSE [threw |-> TRUE,
               value |-> <<"Failed to fetch content for ">> \o path
                         \o <<" (status: ", ToString(status), ").">>]
    ELSE IF atob(payload).ok
         THEN [threw |-> FALSE, value |-> atob(payload).text]
         ELSE [threw |-> FALSE,
               value |-> <<"// Error: Could not decode content for ">> \o path]

\* ------------------------------------------------------------ review call

ApiKeyNotValid == <<"A", "P", "I", " ", "k", "e", "y", " ", "n", "o", "t", " ", "v", "a", "l", "i", "d">>

\* Fault: the test of blank code is dropped.
reviewCodeStart_Faulty(key, code, language) ==
    IF key = NULL \/ key = <<>>
    THEN [kind  |-> "throw",
          value |-> <<"API Key is missing. Please provide it in the Settings tab.">>]
    ELSE IF language = OBJECT
    THEN [kind |-> "throw", value |-> <<"language.toLowerCase is not a function">>]
    ELSE [kind |-> "call", value |-> <<>>]

\* reviewCode up to its call of generateContent: [kind, value] with kind
\* "throw" (value the error's message), "return" (value the returned text) or
\* "call" (the outbound call is made).
reviewCodeStart(key, code, language) ==
    IF key = NULL \/ key = <<>>
    THEN [kind  |-> "throw",
          value |-> <<"API Key is missing. Please provide it in the Settings tab.">>]
    ELSE IF trim(code) = <<>>
    THEN [kind |-> "return", value |-> <<"Please provide some code to review.">>]
    ELSE IF language = OBJECT
    THEN [kind |-> "throw", value |-> <<"language.toLowerCase is not a function">>]
    ELSE [kind |-> "call", value |-> <<>>]

\* reviewCode once generateContent settled: resp.kind is "text" (resolved
\* with response.text = resp.text), "error" (rejected with an Error whose
\* message is resp.text) or "other" (rejected with a value that is no Error).
reviewCodeFinish(resp) ==
    IF resp.kind = "text" THEN resp.text
    ELSE IF resp.kind = "error"
    THEN IF includes(resp.text, ApiKeyNotValid)
         THEN <<"Error: The Gemini API key you provided is invalid. Please check it in the Settings tab.">>
         ELSE <<"An error occurred while communicating with the API: ">> \o resp.text
    ELSE <<"An unknown error occurred while reviewing the code.">>

\* marked.parse of a one-paragraph text.
markedParse(text) == <<"<p>">> \o text \o <<"</p>\n">>

\* ------------------------------------------------------------ environment

\* The longest tree response.
MaxTree == 2

\* What the user types into the repository URL field.
UrlPool ==
    { <<>>,
      <<"h", "t", "t", "p", "s", ":", "/", "/", "g", "i", "t", "h", "u", "b", ".", "c", "o", "m", "/", "o", "/", "r", "/">>,
      <<"g", "i", "t", "h", "u", "b", ".", "c", "o", "m", "/", "o">> }

\* What localStorage holds under 'gemini-api-key' when the page loads.
StoredKeys == { NULL, <<"k", "1">> }

\* Entries of the upstream tree.
EntryPool ==
    { [path |-> <<"a", ".", "j", "s">>, type |-> "blob"],
      [path |-> <<"s", "r", "c", "/", "B", ".", "P", "Y">>, type |-> "blob"],
      [path |-> <<"D", "o", "c", "k", "e", "r", "f", "i", "l", "e">>, type |-> "blob"],
      [path |-> <<"R", "E", "A", "D", "M", "E">>, type |-> "blob"],
      [path |-> <<"s", "r", "c">>, type |-> "tree"] }

\* Upstream tree listings: no path occurs twice in a git tree.
TreePool ==
    UNION { { t \in [1..n -> EntryPool] : \A a, b \in 1..n : a # b => t[a] # t[b] }
            : n \in 0..MaxTree }

BranchPool == { <<"main">>, <<"dev">> }

ShaPool == { <<"sha1">>, <<"sha2">> }

StatusPool == { 200, 403, 404, 500 }

\* `content` of a contents response: "x=1", an empty file, " \n", and a
\* payload that is no base64.
PayloadPool ==
    { <<"e", "D", "0", "x", "\n">>,
      <<>>,
      <<"I", "A", "o", "=", "\n">>,
      <<"%", "%">> }

\* The settled generateContent call.
ReviewResponses ==
    { [kind |-> "text",  text |-> <<"N", "o", " ", "i", "s", "s", "u", "e", "s", " ", "f", "o", "u", "n", "d", ".">>],
      [kind |-> "text",  text |-> <<" ", "N", "o", " ", "i", "s", "s", "u", "e", "s", " ", "f", "o", "u", "n", "d", ".", "\n">>],
      [kind |-> "text",  text |-> <<"n", "o", " ", "i", "s", "s", "u", "e", "s", " ", "f", "o", "u", "n", "d", ".">>],
      [kind |-> "text",  text |-> <<" ", "N", "O", " ", "I", "S", "S", "U", "E", "S", " ", "F", "O", "U", "N", "D", ".", " ">>],
      [kind |-> "text",  text |-> <<"B", "u", "g", ":", " ", "x">>],
      [kind |-> "error", text |-> <<"A", "P", "I", " ", "k", "e", "y", " ", "n", "o", "t", " ", "v", "a", "l", "i", "d", ".">>],
      [kind |-> "error", text |-> <<"f", "e", "t", "c", "h", " ", "f", "a", "i", "l", "e", "d">>],
      [kind |-> "other", text |-> <<>>] }

\* ------------------------------------------------------------------ state

VARIABLES
    variant,          \* the root component mounted: "MainApp" or "App"
    apiKey,           \* MainApp: the stored credential, or NULL
    repoUrl,          \* the repository URL field
    isRepoUrlValid,   \* MainApp: the field's validity flag
    isLoading,        \* the loading flag
    error,            \* the error message shown, or NULL
    repoReviews,      \* MainApp: the reviews of the last finished scan
    repoErrors,       \* MainApp: the per-file errors of the last finished scan
    repoProgress,     \* MainApp: the progress value, or NoProgress
    repoScanSummary,  \* MainApp: the summary, or NoSummary
    reviews,          \* App: the reviews, appended file by file
    reviewProgress,   \* App: the progress value, or NoReviewProgress
    pc,               \* where handleAutonomousReview stands
    request,          \* the network operation in flight, or NoRequest
    scanUrl,          \* repoUrl as the running handler captured it
    scanKey,          \* apiKey as the running handler captured it
    urlParts,         \* <<owner, repo>> of the running scan
    fileTree,         \* what fetchRepoFileTree returned
    reviewableFiles,  \* fileTree filtered by isReviewableFile
    i,                \* the loop index (0-based, as in the source)
    newReviews,       \* MainApp: the loop's review list
    newErrors,        \* MainApp: the loop's error list
    progressLog,      \* history: the progress values emitted by this scan
    log,              \* history: per processed file, <<path, status, review>>
    last,             \* history: the file processed last, in detail; `args` is
                      \* what reviewCode was invoked with (key, code, language)
    netLog,           \* history: what this scan started, awaited and called
    response,         \* history: the body fetchRepoFileTree read from the response
                      \* that settled last; none once a later operation settled
    call,             \* a function applied on its own: [fn, arg, done, out]
    viewMode,         \* MainApp: the tab shown: "settings", "paste" or "repo"
    tempApiKey,       \* MainApp: the API key field of the settings tab
    storedKey,        \* localStorage's 'gemini-api-key' entry, NULL when absent
    effectPending     \* MainApp: the [apiKey, viewMode] effect has yet to run

ui       == <<variant, apiKey, repoUrl, isRepoUrlValid>>
captured == <<scanUrl, scanKey>>
history  == <<log, last>>
settings == <<viewMode, tempApiKey, storedKey, effectPending>>

\* Everything but `call`.
scan ==
    <<variant, apiKey, repoUrl, isRepoUrlValid, isLoading, error, repoReviews,
      repoErrors, repoProgress, repoScanSummary, reviews, reviewProgress, pc,
      request, scanUrl, scanKey, urlParts, fileTree, reviewableFiles, i,
      newReviews, newErrors, progressLog, log, last, netLog, response,
      viewMode, tempApiKey, storedKey, effectPending>>

vars ==
    <<variant, apiKey, repoUrl, isRepoUrlValid, isLoading, error, repoReviews,
      repoErrors, repoProgress, repoScanSummary, reviews, reviewProgress, pc,
      request, scanUrl, scanKey, urlParts, fileTree, reviewableFiles, i,
      newReviews, newErrors, progressLog, log, last, netLog, response, call,
      viewMode, tempApiKey, storedKey, effectPending>>

NoProgress       == [current |-> -1, total |-> -1]
NoSummary        == [total |-> -1, analyzed |-> -1, withIssues |-> -1, errors |-> -1]
NoReviewProgress == [currentFile |-> NULL, progress |-> -1]
NoRequest        == [kind |-> "none", target |-> <<>>]
NoFile           ==
    [path |-> NULL, status |-> 0, decoded |-> "none", review |-> "none", feedback |-> NULL,
     args |-> <<>>]

\* No body was read: nothing settled yet, or the response was not ok.
NoResponse == [op |-> "none", body |-> <<>>]

\* No function is applied on its own while the application runs.
NoCall == [fn |-> "none", arg |-> <<>>, done |-> TRUE, out |-> <<>>]

\* The handler is not running: it never ran, or it ran to its end.
Idle == pc \in {"idle", "done", "aborted"}

\* A root component as it mounts.
Mounted ==
    /\ variant \in {"MainApp", "App"}
    /\ apiKey \in (IF variant = "MainApp" THEN StoredKeys ELSE {NULL})
    /\ repoUrl = <<>>
    /\ isRepoUrlValid = TRUE
    /\ isLoading = FALSE
    /\ error = NULL
    /\ repoReviews = <<>>
    /\ repoErrors = <<>>
    /\ repoProgress = NoProgress
    /\ repoScanSummary = NoSummary
    /\ reviews = <<>>
    /\ reviewProgress = NoReviewProgress
    /\ pc = "idle"
    /\ request = NoRequest
    /\ scanUrl = <<>>
    /\ scanKey = NULL
    /\ urlParts = <<>>
    /\ fileTree = <<>>
    /\ reviewableFiles = <<>>
    /\ i = 0
    /\ newReviews = <<>>
    /\ newErrors = <<>>
    /\ progressLog = <<>>
    /\ log = <<>>
    /\ last = NoFile
    /\ netLog = <<>>
    /\ response = NoResponse
    /\ viewMode = "settings"
    /\ tempApiKey = <<>>
    /\ storedKey = apiKey
    /\ effectPending = (variant = "MainApp")

Init ==
    /\ Mounted
    /\ call = NoCall

\* ------------------------------------------------------------- URL field

handleRepoUrlChange(newUrl) ==
    /\ variant = "MainApp"
    /\ repoUrl' = newUrl
    /\ isRepoUrlValid' = (GITHUB_URL_REGEX_test(newUrl) \/ newUrl = <<>>)
    /\ UNCHANGED <<call, settings, variant, apiKey, isLoading, error, repoReviews, repoErrors,
                   repoProgress, repoScanSummary, reviews, reviewProgress, pc,
                   request, captured, urlParts, fileTree, reviewableFiles, i,
                   newReviews, newErrors, progressLog, history, netLog, response>>

\* App's input: onChange={(e) => setRepoUrl(e.target.value)}.
App_setRepoUrl(newUrl) ==
    /\ variant = "App"
    /\ repoUrl' = newUrl
    /\ UNCHANGED <<call, settings, variant, apiKey, isRepoUrlValid, isLoading, error, repoReviews,
                   repoErrors, repoProgress, repoScanSummary, reviews,
                   reviewProgress, pc, request, captured, urlParts, fileTree,
                   reviewableFiles, i, newReviews, newErrors, progressLog, history,
                   netLog, response>>

\* ------------------------------------------------- the scan: shared pieces

\* Fault: the outer catch drops the message.
\* (The outer catch and finally of handleAutonomousReview follow.  Each root
\* component resets its own progress state; the other one's is never set.)
Abort_Faulty(message) ==
    /\ error' = NULL
    /\ isLoading' = FALSE
    /\ repoProgress' = NoProgress
    /\ reviewProgress' = NoReviewProgress
    /\ pc' = "aborted"
    /\ request' = NoRequest

\* Fault: there is no finally; the catch alone runs.
Abort_NoFinally(message) ==
    /\ error' = message
    /\ UNCHANGED <<isLoading, repoProgress, reviewProgress>>
    /\ pc' = "aborted"
    /\ request' = NoRequest

Abort(message) ==
    /\ error' = message
    /\ isLoading' = FALSE
    /\ repoProgress' = NoProgress
    /\ reviewProgress' = NoReviewProgress
    /\ pc' = "aborted"
    /\ request' = NoRequest

RateLimitMessage ==
    <<"GitHub API rate limit exceeded (60 requests/hour for unauthenticated users). Please wait a moment and try again.">>

\* What fetchRepoFileTree throws when a request comes back not ok.
repoInfoError(status) ==
    IF status = 404
    THEN <<"Repository not found. Please check the URL and ensure the repository is public.">>
    ELSE IF status = 403 THEN RateLimitMessage
    ELSE <<"Could not fetch repository info (status: ", ToString(status), ").">>

branchInfoError(status) ==
    IF status = 403 THEN RateLimitMessage
    ELSE <<"Could not fetch branch info (status: ", ToString(status), ").">>

treeError(status) ==
    IF status = 403 THEN RateLimitMessage
    ELSE <<"Could not fetch file tree (status: ", ToString(status), ").">>

\* Fault: directories are kept.
IsBlob_Faulty(item) == TRUE

\* Line 97: item.type === 'blob'.
IsBlob(item) == item.type = "blob"

\* treeData.tree.filter(item => item.type === 'blob').map(item => ({ path }))
treeBlobs(tree) ==
    LET kept == SelectSeq(tree, IsBlob)
    IN  [k \in 1..Len(kept) |-> [path |-> kept[k].path]]

\* Entries of netLog.  `await fetch(...)` and `await generateContent(...)`
\* start one network operation and go on once it settled; `arg` holds the
\* path of the file concerned (an empty text for the tree-discovery steps)
\* and `status` the HTTP status (0 where there is none).
started(op, target) ==
    [ev |-> "start", op |-> op, arg |-> <<target>>, status |-> 0]

settled(op, target, status) ==
    [ev |-> "settle", op |-> op, arg |-> <<target>>, status |-> status]

\* Fault: the generateContent call is issued twice.
reviewCodeEvents_Faulty(key, code, language, path) ==
    LET start  == reviewCodeStart(key, code, language)
        invoke == [ev |-> "invoke", op |-> "reviewCode", arg |-> <<path>>, status |-> 0]
    IN  IF start.kind = "call"
        THEN <<invoke, started("review", path), started("review", path)>>
        ELSE <<invoke, [ev |-> start.kind, op |-> "reviewCode", arg |-> <<path>>,
                        status |-> 0]>>

\* What one invocation of reviewCode does up to its await: it is entered,
\* then it throws, returns, or starts its one generateContent call.
reviewCodeEvents(key, code, language, path) ==
    LET start  == reviewCodeStart(key, code, language)
        invoke == [ev |-> "invoke", op |-> "reviewCode", arg |-> <<path>>, status |-> 0]
    IN  IF start.kind = "call"
        THEN <<invoke, started("review", path)>>
        ELSE <<invoke, [ev |-> start.kind, op |-> "reviewCode", arg |-> <<path>>,
                        status |-> 0]>>

\* What the invocation does once its generateContent call settled: the try
\* returns response.text, the catch returns a message; neither calls again.
reviewCodeSettled(resp, path) ==
    << settled("review", path, 0),
       [ev |-> "return", op |-> "reviewCode", arg |-> <<path>>, status |-> 0] >>

\* ---------------------------------------------------------------- MainApp

NoIssuesFound == <<"N", "o", " ", "i", "s", "s", "u", "e", "s", " ", "f", "o", "u", "n", "d", ".">>

HasReviewableName(file) == isReviewableFile(file.path)

\* Fault: the index steps back after each file.
FirstWithLanguage_Faulty(files, k) == IF k > 0 THEN k - 1 ELSE k

\* The first index from k on (0-based) whose file has a language; Len(files)
\* when there is none.  The loop body `continue`s on the indices before it.
RECURSIVE FirstWithLanguage(_, _)
FirstWithLanguage(files, k) ==
    IF k >= Len(files) THEN Len(files)
    ELSE IF getLanguageForFile(files[k + 1].path) # NULL THEN k
    ELSE FirstWithLanguage(files, k + 1)

\* Fault: the index is emitted as it stands, without the + 1.
loopProgress_Faulty(k, upto, n) ==
    [m \in 1..(upto - k + 1) |-> [current |-> k + m - 1, total |-> n]]

\* Line 143, for the indices k..upto: setRepoProgress({ current: i + 1, total }).
loopProgress(k, upto, n) ==
    [m \in 1..(upto - k + 1) |-> [current |-> k + m, total |-> n]]

\* Fault: total and analyzed take each other's value.
scanSummary_Faulty(tree, files, revs, errs) ==
    [total |-> Len(files), analyzed |-> Len(tree),
     withIssues |-> Len(revs), errors |-> Len(errs)]

\* Lines 161-166: the summary of a finished scan.
scanSummary(tree, files, revs, errs) ==
    [total |-> Len(tree), analyzed |-> Len(files),
     withIssues |-> Len(revs), errors |-> Len(errs)]

\* Fault: the content requests of all remaining files are started at once.
MainLoop_Faulty(k, tree, files, parts, revs, errs, plog, nlog) ==
    LET n       == Len(files)
        j       == FirstWithLanguage(files, k)
        upto    == IF j >= n THEN n - 1 ELSE j
        emitted == loopProgress(k, upto, n)
    IN  /\ newReviews' = revs
        /\ newErrors' = errs
        /\ progressLog' = plog \o emitted
        /\ i' = j
        /\ netLog' = nlog \o [m \in 1..(n - j) |-> started("content", files[j + m].path)]
        /\ IF j >= n
           THEN /\ repoReviews' = revs
                /\ repoErrors' = errs
                /\ repoScanSummary' = scanSummary(tree, files, revs, errs)
                /\ isLoading' = FALSE
                /\ repoProgress' = NoProgress
                /\ pc' = "done"
                /\ request' = NoRequest
           ELSE /\ UNCHANGED <<repoReviews, repoErrors, repoScanSummary, isLoading>>
                /\ repoProgress' = [current |-> j + 1, total |-> n]
                /\ pc' = "content"
                /\ request' = [kind   |-> "content",
                               target |-> <<parts[1], parts[2], files[j + 1].path>>]

\* The for loop of MainApp's handleAutonomousReview from the test of index k
\* up to its next await (the content request of the next file with a
\* language), or through the code after the loop and the finally.
MainLoop(k, tree, files, parts, revs, errs, plog, nlog) ==
    LET n       == Len(files)
        j       == FirstWithLanguage(files, k)
        upto    == IF j >= n THEN n - 1 ELSE j
        emitted == loopProgress(k, upto, n)
    IN  /\ newReviews' = revs
        /\ newErrors' = errs
        /\ progressLog' = plog \o emitted
        /\ i' = j
        /\ netLog' = IF j >= n THEN nlog
                      ELSE Append(nlog, started("content", files[j + 1].path))
        /\ IF j >= n
           THEN /\ repoReviews' = revs
                /\ repoErrors' = errs
                /\ repoScanSummary' = scanSummary(tree, files, revs, errs)
                /\ isLoading' = FALSE
                /\ repoProgress' = NoProgress
                /\ pc' = "done"
                /\ request' = NoRequest
           ELSE /\ UNCHANGED <<repoReviews, repoErrors, repoScanSummary, isLoading>>
                /\ repoProgress' = [current |-> j + 1, total |-> n]
                /\ pc' = "content"
                /\ request' = [kind   |-> "content",
                               target |-> <<parts[1], parts[2], files[j + 1].path>>]

\* Fault: the sentinel test is dropped.
MainKeepsFeedback_Faulty(feedback) == TRUE

\* Lines 151-154: the sentinel test and the push.
MainKeepsFeedback(feedback) == trim(feedback) # NoIssuesFound

\* Fault: unshift in place of push.
MainFeedback_Faulty(file, feedback, nlog) ==
    LET revs == IF trim(feedback) # NoIssuesFound
                THEN <<[path |-> file.path, rawFeedback |-> feedback,
                        htmlFeedback |-> markedParse(feedback)]>> \o newReviews
                ELSE newReviews
    IN  MainLoop(i + 1, fileTree, reviewableFiles, urlParts, revs, newErrors,
                 progressLog, nlog)

MainFeedback(file, feedback, nlog) ==
    LET revs == IF MainKeepsFeedback(feedback)
                THEN Append(newReviews,
                            [path |-> file.path, rawFeedback |-> feedback,
                             htmlFeedback |-> markedParse(feedback)])
                ELSE newReviews
    IN  MainLoop(i + 1, fileTree, reviewableFiles, urlParts, revs, newErrors,
                 progressLog, nlog)

\* Fault: the inner catch swallows the error.
MainFileError_Faulty(file, message, nlog) ==
    MainLoop(i + 1, fileTree, reviewableFiles, urlParts, newReviews, newErrors,
             progressLog, nlog)

\* Line 156: the inner catch.
MainFileError(file, message, nlog) ==
    MainLoop(i + 1, fileTree, reviewableFiles, urlParts, newReviews,
             Append(newErrors, [path |-> file.path, error |-> message]), progressLog,
             nlog)

\* Lines 119-127: the resets, then fetchRepoFileTree up to its first await.
MainStartScan ==
    /\ scanUrl' = repoUrl
    /\ scanKey' = apiKey
    /\ repoReviews' = <<>>
    /\ repoErrors' = <<>>
    /\ repoScanSummary' = NoSummary
    /\ urlParts' = <<>>
    /\ fileTree' = <<>>
    /\ reviewableFiles' = <<>>
    /\ i' = 0
    /\ newReviews' = <<>>
    /\ newErrors' = <<>>
    /\ progressLog' = <<[current |-> 0, total |-> 0]>>
    /\ log' = <<>>
    /\ last' = NoFile
    /\ IF parseGitHubUrl(repoUrl) = <<>>
       THEN Abort(<<"Invalid GitHub repository URL.">>) /\ netLog' = <<>>
       ELSE /\ netLog' = <<started("repo", <<>>)>>
            /\ isLoading' = TRUE
            /\ error' = NULL
            /\ repoProgress' = [current |-> 0, total |-> 0]
            /\ pc' = "repoInfo"
            /\ request' = [kind |-> "repo", target |-> parseGitHubUrl(repoUrl)]
            /\ UNCHANGED reviewProgress
    /\ response' = NoResponse
    /\ UNCHANGED <<ui, call, settings, reviews>>

\* Fault: the URL is tested after the resets of lines 119-124.
handleAutonomousReview_Faulty ==
    /\ variant = "MainApp"
    /\ Idle
    /\ IF apiKey = NULL \/ apiKey = <<>>
       THEN /\ error' = <<"API Key is not set. Please set it in the Settings tab.">>
            /\ UNCHANGED <<ui, call, settings, isLoading, repoReviews, repoErrors,
                           repoProgress, repoScanSummary, reviews, reviewProgress, pc,
                           request, captured, urlParts, fileTree, reviewableFiles, i,
                           newReviews, newErrors, progressLog, history,
                           netLog, response>>
       ELSE IF ~isRepoUrlValid \/ repoUrl = <<>>
       THEN /\ isLoading' = TRUE
            /\ error' = NULL
            /\ repoReviews' = <<>>
            /\ repoErrors' = <<>>
            /\ repoScanSummary' = NoSummary
            /\ repoProgress' = [current |-> 0, total |-> 0]
            /\ UNCHANGED <<ui, call, settings, reviews, reviewProgress, pc, request,
                           captured, urlParts, fileTree, reviewableFiles, i,
                           newReviews, newErrors, progressLog, history, netLog,
                           response>>
       ELSE MainStartScan

\* Lines 112-127: the guards, then the scan.
handleAutonomousReview ==
    /\ variant = "MainApp"
    /\ Idle
    /\ IF apiKey = NULL \/ apiKey = <<>>
       THEN /\ error' = <<"API Key is not set. Please set it in the Settings tab.">>
            /\ UNCHANGED <<ui, call, settings, isLoading, repoReviews, repoErrors,
                           repoProgress, repoScanSummary, reviews, reviewProgress, pc,
                           request, captured, urlParts, fileTree, reviewableFiles, i,
                           newReviews, newErrors, progressLog, history,
                           netLog, response>>
       ELSE IF ~isRepoUrlValid \/ repoUrl = <<>>
       THEN UNCHANGED vars
       ELSE MainStartScan

\* After `await fetchRepoFileTree(repoUrl)` returned blobs (lines 128-140).
MainAfterTree(blobs, nlog) ==
    LET files == SelectSeq(blobs, HasReviewableName)
        parts == parseGitHubUrl(scanUrl)
        plog  == Append(progressLog, [current |-> 0, total |-> Len(files)])
    IN  /\ fileTree' = blobs
        /\ reviewableFiles' = files
        /\ IF parts = <<>>
           THEN /\ Abort(<<"Could not parse GitHub URL parts.">>)
                /\ progressLog' = plog
                /\ netLog' = nlog
                /\ UNCHANGED <<urlParts, i, newReviews, newErrors, repoReviews,
                               repoErrors, repoScanSummary>>
           ELSE /\ urlParts' = parts
                /\ MainLoop(0, blobs, files, parts, <<>>, <<>>, plog, nlog)
                /\ UNCHANGED <<error, reviewProgress>>
        /\ UNCHANGED <<ui, call, settings, reviews, captured, history>>

\* The content request of file i settled (lines 145-157).
MainApp_ContentResolved(status, payload) ==
    /\ variant = "MainApp"
    /\ pc = "content"
    /\ LET file     == reviewableFiles[i + 1]
           language == getLanguageForFile(file.path)
           got      == getFileContent(file.path, status, payload)
           start    == reviewCodeStart(scanKey, got.value, language)
           decoded  == IF ~ResponseOk(status) THEN "none"
                       ELSE IF atob(payload).ok THEN "ok" ELSE "failed"
           seen     == [path |-> file.path, status |-> status, decoded |-> decoded,
                        review |-> "none", feedback |-> NULL,
                        args |-> IF got.threw THEN <<>>
                                 ELSE <<scanKey, got.value, language>>]
           fetched  == Append(netLog, settled("content", file.path, status))
           entered  == fetched \o reviewCodeEvents(scanKey, got.value, language,
                                                   file.path)
       IN  IF got.threw
           THEN /\ MainFileError(file, got.value, fetched)
                /\ log' = Append(log, <<file.path, status, "none">>)
                /\ last' = seen
           ELSE IF start.kind = "throw"
           THEN /\ MainFileError(file, start.value, entered)
                /\ log' = Append(log, <<file.path, status, "threw">>)
                /\ last' = [seen EXCEPT !.review = "threw"]
           ELSE IF start.kind = "return"
           THEN /\ MainFeedback(file, start.value, entered)
                /\ log' = Append(log, <<file.path, status, "none">>)
                /\ last' = [seen EXCEPT !.feedback = start.value]
           ELSE /\ pc' = "review"
                /\ netLog' = entered
                /\ request' = [kind   |-> "review",
                               target |-> <<scanKey, got.value, language, file.path>>]
                /\ last' = [seen EXCEPT !.review = "pending"]
                /\ UNCHANGED <<isLoading, repoReviews, repoErrors, repoProgress,
                               repoScanSummary, i, newReviews, newErrors,
                               progressLog, log>>
    /\ response' = NoResponse
    /\ UNCHANGED <<ui, call, settings, error, reviews, reviewProgress, captured, urlParts,
                   fileTree, reviewableFiles>>

\* The generateContent call of file i settled (lines 149-154).
MainApp_ReviewResolved(resp) ==
    /\ variant = "MainApp"
    /\ pc = "review"
    /\ LET file     == reviewableFiles[i + 1]
           feedback == reviewCodeFinish(resp)
           outcome  == IF resp.kind = "text" THEN "resolved" ELSE "rejected"
       IN  /\ MainFeedback(file, feedback, netLog \o reviewCodeSettled(resp, file.path))
           /\ log' = Append(log, <<file.path, last.status, outcome>>)
           /\ last' = [last EXCEPT !.review = outcome, !.feedback = feedback]
    /\ UNCHANGED <<ui, call, settings, error, reviews, reviewProgress, captured, urlParts,
                   fileTree, reviewableFiles, response>>

\* -------------------------------------------------------------------- App

\* PROGRAMMING_LANGUAGES[0], the language selected when App mounts.
AppLanguage == <<"JavaScript">>

NoIssuesFoundLower == <<"n", "o", " ", "i", "s", "s", "u", "e", "s", " ", "f", "o", "u", "n", "d", ".">>

\* App skips files longer than this.
MaxContentLength == 150000

ReplacementCharacter == "\\uFFFD"

HasReviewableExtension(file) == isReviewableFileByExtension(file.path)

\* Math.round(((k + 1) / n) * 100)
progressPercent(k, n) == (200 * (k + 1) + n) \div (2 * n)

\* The for loop of App's handleAutonomousReview from the test of index k up to
\* its next await, or through the finally.
AppLoop(k, files, parts, revs, plog, nlog) ==
    LET n == Len(files)
    IN  /\ reviews' = revs
        /\ i' = k
        /\ netLog' = IF k >= n THEN nlog
                      ELSE Append(nlog, started("content", files[k + 1].path))
        /\ IF k >= n
           THEN /\ isLoading' = FALSE
                /\ reviewProgress' = NoReviewProgress
                /\ progressLog' = plog
                /\ pc' = "done"
                /\ request' = NoRequest
           ELSE LET shown == [currentFile |-> files[k + 1].path,
                              progress    |-> progressPercent(k, n)]
                IN  /\ UNCHANGED isLoading
                    /\ reviewProgress' = shown
                    /\ progressLog' = Append(plog, shown)
                    /\ pc' = "content"
                    /\ request' = [kind   |-> "content",
                                   target |-> <<parts[1], parts[2], files[k + 1].path>>]

\* Lines 98-100: the sentinel test and the append.
AppKeepsFeedback(feedback) == toLowerCase(trim(feedback)) # NoIssuesFoundLower

AppFeedback(file, feedback, nlog) ==
    LET revs == IF AppKeepsFeedback(feedback)
                THEN Append(reviews, [path |-> file.path, feedback |-> feedback])
                ELSE reviews
    IN  AppLoop(i + 1, reviewableFiles, urlParts, revs, progressLog, nlog)

\* Line 94: empty, very large or binary-like content is skipped.
AppSkipsContent(content) ==
    \/ content = <<>>
    \/ Len(content) > MaxContentLength
    \/ \E k \in 1..Len(content) : content[k] = ReplacementCharacter

App_handleAutonomousReview ==
    /\ variant = "App"
    /\ Idle
    /\ IF repoUrl = <<>>
       THEN /\ error' = <<"Please enter a GitHub repository URL.">>
            /\ UNCHANGED <<ui, call, settings, isLoading, repoReviews, repoErrors, repoProgress,
                           repoScanSummary, reviews, reviewProgress, pc, request,
                           captured, urlParts, fileTree, reviewableFiles, i,
                           newReviews, newErrors, progressLog, history,
                           netLog, response>>
       ELSE /\ scanUrl' = repoUrl
            /\ reviews' = <<>>
            /\ urlParts' = parseGitHubUrl(repoUrl)
            /\ fileTree' = <<>>
            /\ reviewableFiles' = <<>>
            /\ i' = 0
            /\ progressLog' = <<>>
            /\ log' = <<>>
            /\ last' = NoFile
            /\ IF parseGitHubUrl(repoUrl) = <<>>
               THEN /\ Abort(<<"Invalid GitHub URL provided. Please check the format.">>)
                    /\ netLog' = <<>>
               ELSE /\ netLog' = <<started("repo", <<>>)>>
                    /\ isLoading' = TRUE
                    /\ error' = NULL
                    /\ reviewProgress' = NoReviewProgress
                    /\ pc' = "repoInfo"
                    /\ request' = [kind |-> "repo", target |-> parseGitHubUrl(repoUrl)]
                    /\ UNCHANGED repoProgress
            /\ response' = NoResponse
            /\ UNCHANGED <<ui, call, settings, scanKey, repoReviews, repoErrors, repoScanSummary,
                           newReviews, newErrors>>

\* After `await fetchRepoFileTree(repoUrl)` returned blobs (lines 77-82).
AppAfterTree(blobs, nlog) ==
    LET files == SelectSeq(blobs, HasReviewableExtension)
    IN  /\ fileTree' = blobs
        /\ reviewableFiles' = files
        /\ IF Len(files) = 0
           THEN /\ Abort(<<"No reviewable source code files were found in this repository.">>)
                /\ netLog' = nlog
                /\ UNCHANGED <<reviews, i, progressLog>>
           ELSE /\ AppLoop(0, files, urlParts, reviews, progressLog, nlog)
                /\ UNCHANGED <<error, repoProgress>>
        /\ UNCHANGED <<ui, call, settings, repoReviews, repoErrors, repoScanSummary, captured,
                       urlParts, newReviews, newErrors, history>>

\* The content request of file i settled (lines 91-100).  App passes
\* (content, language, file.path) to reviewCode(apiKey, code, language).
App_ContentResolved(status, payload) ==
    /\ variant = "App"
    /\ pc = "content"
    /\ LET file    == reviewableFiles[i + 1]
           got     == getFileContent(file.path, status, payload)
           start   == reviewCodeStart(got.value, AppLanguage, file.path)
           decoded == IF ~ResponseOk(status) THEN "none"
                      ELSE IF atob(payload).ok THEN "ok" ELSE "failed"
           seen    == [path |-> file.path, status |-> status, decoded |-> decoded,
                       review |-> "none", feedback |-> NULL,
                       args |-> IF got.threw \/ AppSkipsContent(got.value) THEN <<>>
                                ELSE <<got.value, AppLanguage, file.path>>]
           fetched == Append(netLog, settled("content", file.path, status))
           entered == fetched \o reviewCodeEvents(got.value, AppLanguage, file.path,
                                                  file.path)
       IN  IF got.threw
           THEN /\ Abort(got.value)
                /\ netLog' = fetched
                /\ log' = Append(log, <<file.path, status, "none">>)
                /\ last' = seen
                /\ UNCHANGED <<reviews, i, progressLog>>
           ELSE IF AppSkipsContent(got.value)
           THEN /\ AppLoop(i + 1, reviewableFiles, urlParts, reviews, progressLog,
                           fetched)
                /\ log' = Append(log, <<file.path, status, "none">>)
                /\ last' = seen
                /\ UNCHANGED <<error, repoProgress>>
           ELSE IF start.kind = "throw"
           THEN /\ Abort(start.value)
                /\ netLog' = entered
                /\ log' = Append(log, <<file.path, status, "threw">>)
                /\ last' = [seen EXCEPT !.review = "threw"]
                /\ UNCHANGED <<reviews, i, progressLog>>
           ELSE IF start.kind = "return"
           THEN /\ AppFeedback(file, start.value, entered)
                /\ log' = Append(log, <<file.path, status, "none">>)
                /\ last' = [seen EXCEPT !.feedback = start.value]
                /\ UNCHANGED <<error, repoProgress>>
           ELSE /\ pc' = "review"
                /\ netLog' = entered
                /\ request' = [kind   |-> "review",
                               target |-> <<got.value, AppLanguage, file.path>>]
                /\ last' = [seen EXCEPT !.review = "pending"]
                /\ UNCHANGED <<isLoading, error, reviews, reviewProgress,
                               repoProgress, i, progressLog, log>>
    /\ response' = NoResponse
    /\ UNCHANGED <<ui, call, settings, repoReviews, repoErrors, repoScanSummary, captured,
                   urlParts, fileTree, reviewableFiles, newReviews, newErrors>>

\* The generateContent call of file i settled (lines 96-100).
App_ReviewResolved(resp) ==
    /\ variant = "App"
    /\ pc = "review"
    /\ LET file     == reviewableFiles[i + 1]
           feedback == reviewCodeFinish(resp)
           outcome  == IF resp.kind = "text" THEN "resolved" ELSE "rejected"
       IN  /\ AppFeedback(file, feedback, netLog \o reviewCodeSettled(resp, file.path))
           /\ log' = Append(log, <<file.path, last.status, outcome>>)
           /\ last' = [last EXCEPT !.review = outcome, !.feedback = feedback]
    /\ UNCHANGED <<ui, call, settings, error, repoReviews, repoErrors, repoProgress,
                   repoScanSummary, captured, urlParts, fileTree, reviewableFiles,
                   newReviews, newErrors, response>>

\* -------------------------------------------------------- fetchRepoFileTree

\* Everything a failing tree-discovery step leaves alone.
AbortFrame ==
    UNCHANGED <<ui, call, settings, repoReviews, repoErrors, repoScanSummary, reviews, captured,
                urlParts, fileTree, reviewableFiles, i, newReviews, newErrors,
                progressLog, history>>

\* Fault: the branch requested is a fixed one, whatever the metadata say.
branchRequest_Faulty(parts, repoInfo) ==
    [kind |-> "branch", target |-> <<parts[1], parts[2], <<"main">>>>]

\* Line 76: the request for the default branch named by the metadata.
branchRequest(parts, repoInfo) ==
    [kind |-> "branch", target |-> <<parts[1], parts[2], repoInfo.default_branch>>]

\* Line 87: the request for the tree the branch's head commit points to.
treeRequest(parts, branchInfo) ==
    [kind |-> "tree", target |-> <<parts[1], parts[2], branchInfo.sha>>]

\* Step 1: the repository metadata request settled.
RepoInfoResolved(status, defaultBranch) ==
    /\ pc = "repoInfo"
    /\ netLog' = Append(netLog, settled("repo", <<>>, status))
                  \o (IF ResponseOk(status) THEN <<started("branch", <<>>)>> ELSE <<>>)
    /\ IF ~ResponseOk(status)
       THEN Abort(repoInfoError(status)) /\ AbortFrame /\ response' = NoResponse
       ELSE LET repoInfo == [default_branch |-> defaultBranch]
            IN  /\ pc' = "branchInfo"
                /\ response' = [op |-> "repo", body |-> repoInfo]
                /\ request' = branchRequest(request.target, repoInfo)
                /\ UNCHANGED <<ui, call, settings, isLoading, error, repoReviews, repoErrors,
                               repoProgress, repoScanSummary, reviews, reviewProgress,
                               captured, urlParts, fileTree, reviewableFiles, i,
                               newReviews, newErrors, progressLog, history>>

\* Step 2: the branch request settled.
BranchInfoResolved(status, treeSha) ==
    /\ pc = "branchInfo"
    /\ netLog' = Append(netLog, settled("branch", <<>>, status))
                  \o (IF ResponseOk(status) THEN <<started("tree", <<>>)>> ELSE <<>>)
    /\ IF ~ResponseOk(status)
       THEN Abort(branchInfoError(status)) /\ AbortFrame /\ response' = NoResponse
       ELSE LET branchInfo == [sha |-> treeSha]
            IN  /\ pc' = "treeData"
                /\ response' = [op |-> "branch", body |-> branchInfo]
                /\ request' = treeRequest(request.target, branchInfo)
                /\ UNCHANGED <<ui, call, settings, isLoading, error, repoReviews, repoErrors,
                               repoProgress, repoScanSummary, reviews, reviewProgress,
                               captured, urlParts, fileTree, reviewableFiles, i,
                               newReviews, newErrors, progressLog, history>>

\* Step 3: the recursive tree request settled; the caller goes on.
TreeResolved(status, tree, truncated) ==
    /\ pc = "treeData"
    /\ IF ~ResponseOk(status)
       THEN /\ Abort(treeError(status)) /\ AbortFrame
            /\ response' = NoResponse
            /\ netLog' = Append(netLog, settled("tree", <<>>, status))
       ELSE LET treeData == [tree |-> tree, truncated |-> truncated]
                nlog     == Append(netLog, settled("tree", <<>>, status))
            IN  /\ response' = [op |-> "tree", body |-> treeData]
                /\ IF variant = "MainApp"
                   THEN MainAfterTree(treeBlobs(treeData.tree), nlog)
                   ELSE AppAfterTree(treeBlobs(treeData.tree), nlog)

\* ------------------------------------------------------------ specification

Next ==
    \/ \E newUrl \in UrlPool : handleRepoUrlChange(newUrl)
    \/ \E newUrl \in UrlPool : App_setRepoUrl(newUrl)
    \/ handleAutonomousReview
    \/ App_handleAutonomousReview
    \/ \E status \in StatusPool, branch \in BranchPool : RepoInfoResolved(status, branch)
    \/ \E status \in StatusPool, sha \in ShaPool : BranchInfoResolved(status, sha)
    \/ \E status \in StatusPool, tree \in TreePool, truncated \in BOOLEAN :
          TreeResolved(status, tree, truncated)
    \/ \E status \in StatusPool, payload \in PayloadPool :
          MainApp_ContentResolved(status, payload)
    \/ \E resp \in ReviewResponses : MainApp_ReviewResolved(resp)
    \/ \E status \in StatusPool, payload \in PayloadPool :
          App_ContentResolved(status, payload)
    \/ \E resp \in ReviewResponses : App_ReviewResolved(resp)

Spec == Init /\ [][Next]_vars

\* A network operation in flight settles: the response arrives, or the call
\* resolves or is rejected.
Settles ==
    \/ \E status \in StatusPool, branch \in BranchPool : RepoInfoResolved(status, branch)
    \/ \E status \in StatusPool, sha \in ShaPool : BranchInfoResolved(status, sha)
    \/ \E status \in StatusPool, tree \in TreePool, truncated \in BOOLEAN :
          TreeResolved(status, tree, truncated)
    \/ \E status \in StatusPool, payload \in PayloadPool :
          MainApp_ContentResolved(status, payload)
    \/ \E resp \in ReviewResponses : MainApp_ReviewResolved(resp)
    \/ \E status \in StatusPool, payload \in PayloadPool :
          App_ContentResolved(status, payload)
    \/ \E resp \in ReviewResponses : App_ReviewResolved(resp)

\* A scan is running: one network operation is in flight and the handler
\* waits for it.  Settles is enabled exactly then.
Running == pc \in {"repoInfo", "branchInfo", "treeData", "content", "review"}

\* The application under the assumption that every network operation in
\* flight settles in the end; the handler's continuation then runs, as the
\* event loop runs every continuation that is ready.  This is weak fairness
\* of Settles, WF_vars(Settles), with ENABLED <<Settles>>_vars written as
\* Running.
LiveSpec ==
    /\ Init
    /\ [][Next]_vars
    /\ ([]<>(~Running) \/ []<><<Settles>>_vars)

\* ------------------------------------------- functions applied on their own

\* Arguments of parseGitHubUrl: what precedes the host, the host, and what follows.
UrlPrefixes ==
    { <<>>,
      <<"h", "t", "t", "p", "s", ":", "/", "/">>,
      <<"s", "e", "e", " ">> }

\* The host, one character short, and with another character for the dot.
UrlHosts ==
    { <<"g", "i", "t", "h", "u", "b", ".", "c", "o", "m">>,
      <<"g", "i", "t", "h", "u", "b", ".", "c", "o">>,
      <<"g", "i", "t", "h", "u", "b", "X", "c", "o", "m">> }

\* Nothing, one segment, two segments, an empty segment, a trailing path.
UrlTails ==
    { <<>>,
      <<"/">>,
      <<"/", "o">>,
      <<"/", "o", "/">>,
      <<"/", "o", "/", "r">>,
      <<"/", "o", "/", "r", "/">>,
      <<"/", "/", "r">>,
      <<"/", "o", "/", "/", "r">>,
      <<"/", "o", "/", "r", "/", "t", "r", "e", "e", "/", "m", "a", "i", "n">>,
      <<"/", "O", "c", "t", "o", "/", "R", ".", "g", "i", "t">>,
      <<"/", "o", "/", "r", " ", "/", "x">> }

UrlInputs == { p \o h \o t : p \in UrlPrefixes, h \in UrlHosts, t \in UrlTails }

\* Arguments of the classifiers: a directory part and a final segment.
PathDirs ==
    { <<>>,
      <<"s", "r", "c", "/">>,
      <<"a", ".", "b", "/", "C", "/">> }

\* Final segments (the empty one is a path ending in a slash).
PathNames ==
    { <<"m", "a", "i", "n", ".", "r", "s">>,
      <<"R", "E", "A", "D", "M", "E">>,
      <<"R", "E", "A", "D", "M", "E", ".", "m", "d">>,
      <<"a", "r", "c", "h", "i", "v", "e", ".", "t", "a", "r", ".", "g", "z">>,
      <<"D", "o", "c", "k", "e", "r", "f", "i", "l", "e">>,
      <<"d", "o", "c", "k", "e", "r", "f", "i", "l", "e">>,
      <<"D", "O", "C", "K", "E", "R", "F", "I", "L", "E">>,
      <<"j", "s">>,
      <<"c">>,
      <<"G", "O">>,
      <<"p", "a", "c", "k", "a", "g", "e", "-", "l", "o", "c", "k", ".", "j", "s", "o", "n">>,
      <<"y", "a", "r", "n", ".", "l", "o", "c", "k">>,
      <<"p", "a", "c", "k", "a", "g", "e", ".", "j", "s", "o", "n">>,
      <<".", "g", "i", "t", "i", "g", "n", "o", "r", "e">>,
      <<"a", ".", "e", "n", "v">>,
      <<"A", "p", "p", ".", "J", "S">>,
      <<"M", "a", "k", "e", "f", "i", "l", "e">>,
      <<"c", "o", "n", "s", "t", "r", "u", "c", "t", "o", "r">>,
      <<"n", "o", "t", "e", "s", ".", "t", "x", "t">>,
      <<"r", "e", "q", "u", "i", "r", "e", "m", "e", "n", "t", "s", ".", "t", "x", "t">>,
      <<"x", ".", "d", "o", "c", "k", "e", "r", "f", "i", "l", "e">>,
      <<>> }

PathInputs == { d \o n : d \in PathDirs, n \in PathNames }

\* The functions applied, each with its arguments.
CallPool ==
    { [fn |-> "parseGitHubUrl", arg |-> a, done |-> FALSE, out |-> <<>>] : a \in UrlInputs }
    \cup { [fn |-> f, arg |-> a, done |-> FALSE, out |-> <<>>] :
              f \in {"getLanguageForFile", "isReviewableFile", "isReviewableFileByExtension"},
              a \in PathInputs }

CallInit ==
    /\ Mounted
    /\ variant = "MainApp"
    /\ apiKey = NULL
    /\ call \in CallPool

Call_parseGitHubUrl ==
    /\ call.fn = "parseGitHubUrl"
    /\ ~call.done
    /\ call' = [call EXCEPT !.done = TRUE, !.out = parseGitHubUrl(call.arg)]
    /\ UNCHANGED scan

Call_getLanguageForFile ==
    /\ call.fn = "getLanguageForFile"
    /\ ~call.done
    /\ call' = [call EXCEPT !.done = TRUE, !.out = getLanguageForFile(call.arg)]
    /\ UNCHANGED scan

\* constants.ts as imported by MainApp.tsx.
Call_isReviewableFile ==
    /\ call.fn = "isReviewableFile"
    /\ ~call.done
    /\ call' = [call EXCEPT !.done = TRUE, !.out = isReviewableFile(call.arg)]
    /\ UNCHANGED scan

\* constants.ts as imported by App.tsx.
Call_isReviewableFileByExtension ==
    /\ call.fn = "isReviewableFileByExtension"
    /\ ~call.done
    /\ call' = [call EXCEPT !.done = TRUE, !.out = isReviewableFileByExtension(call.arg)]
    /\ UNCHANGED scan

CallNext ==
    \/ Call_parseGitHubUrl
    \/ Call_getLanguageForFile
    \/ Call_isReviewableFile
    \/ Call_isReviewableFileByExtension

CallSpec == CallInit /\ [][CallNext]_vars

\* ------------------------------------------------- the credential (MainApp)

\* What the user types into the API key field.
TempKeys ==
    { <<>>,
      <<" ">>,
      <<"k", "1">>,
      <<"k", "2">>,
      <<" ", "k", "2", " ">> }

ViewModes == {"settings", "paste", "repo"}

\* Everything but apiKey and the settings state.
besidesKey ==
    <<variant, repoUrl, isRepoUrlValid, isLoading, error, repoReviews, repoErrors,
      repoProgress, repoScanSummary, reviews, reviewProgress, pc, request, scanUrl,
      scanKey, urlParts, fileTree, reviewableFiles, i, newReviews, newErrors,
      progressLog, log, last, netLog, response, call>>

\* JavaScript truthiness of a string or null.
Truthy(text) == text \notin {NULL, <<>>}

\* The API key field, rendered in the settings tab: onChange.
setTempApiKey(text) ==
    /\ variant = "MainApp"
    /\ viewMode = "settings"
    /\ tempApiKey' = text
    /\ UNCHANGED <<apiKey, viewMode, storedKey, effectPending, besidesKey>>

\* The Save Key button, rendered in the settings tab.
handleSaveApiKey ==
    /\ variant = "MainApp"
    /\ viewMode = "settings"
    /\ IF Truthy(trim(tempApiKey))
       THEN /\ apiKey' = trim(tempApiKey)
            /\ effectPending' = (effectPending \/ trim(tempApiKey) # apiKey)
       ELSE UNCHANGED <<apiKey, effectPending>>
    /\ UNCHANGED <<viewMode, tempApiKey, storedKey, besidesKey>>

\* The Clear Key button, rendered in the settings tab.
handleClearApiKey ==
    /\ variant = "MainApp"
    /\ viewMode = "settings"
    /\ apiKey' = NULL
    /\ tempApiKey' = <<>>
    /\ effectPending' = (effectPending \/ apiKey # NULL)
    /\ UNCHANGED <<viewMode, storedKey, besidesKey>>

\* A navigation button: onClick={() => setMode(mode)}.
NavButton(mode) ==
    /\ variant = "MainApp"
    /\ viewMode' = mode
    /\ effectPending' = (effectPending \/ mode # viewMode)
    /\ UNCHANGED <<apiKey, tempApiKey, storedKey, besidesKey>>

\* The Go to Settings button, rendered when no key is set in another tab.
GoToSettings ==
    /\ variant = "MainApp"
    /\ ~Truthy(apiKey)
    /\ viewMode # "settings"
    /\ viewMode' = "settings"
    /\ effectPending' = TRUE
    /\ UNCHANGED <<apiKey, tempApiKey, storedKey, besidesKey>>

\* Fault: a stored key no longer moves the view away from the settings tab.
CredentialEffect_Faulty ==
    /\ variant = "MainApp"
    /\ effectPending
    /\ IF Truthy(apiKey)
       THEN /\ storedKey' = apiKey
            /\ tempApiKey' = apiKey
            /\ UNCHANGED viewMode
       ELSE /\ storedKey' = NULL
            /\ viewMode' = "settings"
            /\ UNCHANGED tempApiKey
    /\ effectPending' = (viewMode' # viewMode)
    /\ UNCHANGED <<apiKey, besidesKey>>

\* The effect on [apiKey, viewMode]: it runs after the mount and after every
\* change of either; a view it sets makes it run once more.
CredentialEffect ==
    /\ variant = "MainApp"
    /\ effectPending
    /\ IF Truthy(apiKey)
       THEN /\ storedKey' = apiKey
            /\ tempApiKey' = apiKey
            /\ viewMode' = IF viewMode = "settings" THEN "paste" ELSE viewMode
       ELSE /\ storedKey' = NULL
            /\ viewMode' = "settings"
            /\ UNCHANGED tempApiKey
    /\ effectPending' = (viewMode' # viewMode)
    /\ UNCHANGED <<apiKey, besidesKey>>

KeyInit ==
    /\ Mounted
    /\ variant = "MainApp"
    /\ call = NoCall

KeyNext ==
    \/ \E text \in TempKeys : setTempApiKey(text)
    \/ handleSaveApiKey
    \/ handleClearApiKey
    \/ \E mode \in ViewModes : NavButton(mode)
    \/ GoToSettings
    \/ CredentialEffect

\* MainApp's credential and tabs, no scan running.
KeySpec == KeyInit /\ [][KeyNext]_vars

\* ------------------------------------------------------------- properties

PathsOf(entries) == [k \in 1..Len(entries) |-> entries[k].path]

RECURSIVE IsSubsequence(_, _)
IsSubsequence(a, b) ==
    IF a = <<>> THEN TRUE
    ELSE IF b = <<>> THEN FALSE
    ELSE IF Head(a) = Head(b) THEN IsSubsequence(Tail(a), Tail(b))
    ELSE IsSubsequence(a, Tail(b))

NoDuplicates(a) == \A m, n \in 1..Len(a) : m # n => a[m] # a[n]

Iterating == pc \in {"content", "review"}

\* The report as the running scan has built it.
ReportReviews == IF variant = "MainApp" THEN newReviews ELSE reviews
ReportErrors  == IF variant = "MainApp" THEN newErrors ELSE <<>>

\* C1 (as claimed): while a scan iterates over its files, no step takes it to
\* Aborted, whatever a file's content fetch or review call does.
C1_IterationNeverAborts == [][Iterating => pc' # "aborted"]_vars

\* C2: in MainApp, every processed file whose content fetch failed has exactly
\* one entry in the error list, with its path and the message getFileContent
\* threw; a file whose fetch and review call both succeeded has none; once
\* files are processed the scan is never Aborted, and it is Done, with the
\* error list published, as soon as the last file is processed.
C2_FetchFailureIsOneFailedEntry ==
    variant = "MainApp" =>
        /\ \A k \in 1..Len(log) :
              LET path    == log[k][1]
                  status  == log[k][2]
                  entries == {m \in 1..Len(newErrors) : newErrors[m].path = path}
              IN  /\ ~ResponseOk(status) =>
                        /\ Cardinality(entries) = 1
                        /\ \A m \in entries :
                              newErrors[m].error = getFileContent(path, status, <<>>).value
                  /\ (ResponseOk(status) /\ log[k][3] = "resolved") => entries = {}
        /\ Len(log) > 0 => pc # "aborted"
        /\ (Len(log) > 0 /\ Len(log) = Len(reviewableFiles)) =>
              (pc = "done" /\ repoErrors = newErrors)

\* C2 witness: a finished MainApp scan of two files, the first one's fetch
\* answered 404, the second one fetched and reviewed.
C2_Witness ==
    /\ variant = "MainApp"
    /\ pc = "done"
    /\ Len(log) = 2
    /\ log[1][2] = 404
    /\ log[2][2] = 200 /\ log[2][3] = "resolved"
    /\ Len(repoErrors) = 1

\* C3 (as claimed): in MainApp, a file whose content was fetched and decoded
\* and whose review call was rejected has the newest entry of the error list,
\* and no entry in the review list.
C3_ReviewFailureIsFailedEntry ==
    (variant = "MainApp" /\ last.decoded = "ok" /\ last.review = "rejected") =>
        /\ newErrors # <<>>
        /\ newErrors[Len(newErrors)].path = last.path
        /\ \A m \in 1..Len(newReviews) : newReviews[m].path # last.path

\* C4 (as claimed): in MainApp, a file whose payload is no base64 is not
\* reviewed; it has the newest entry of the error list.
C4_DecodeFailureIsFailedEntry ==
    (variant = "MainApp" /\ last.decoded = "failed") =>
        /\ last.review = "none"
        /\ newErrors # <<>>
        /\ newErrors[Len(newErrors)].path = last.path

\* C5: a file whose review call returned exactly "No issues found." has no
\* entry in the review list and none in the error list, during the scan and
\* in the published report.
C5_SentinelAddsNoEntry ==
    (last.review = "resolved" /\ last.feedback = NoIssuesFound) =>
        /\ \A m \in 1..Len(ReportReviews) : ReportReviews[m].path # last.path
        /\ \A m \in 1..Len(ReportErrors) : ReportErrors[m].path # last.path
        /\ \A m \in 1..Len(repoReviews) : repoReviews[m].path # last.path
        /\ \A m \in 1..Len(repoErrors) : repoErrors[m].path # last.path

\* C5 witness: a finished MainApp scan whose last file was answered with the
\* sentinel, after another file got a review entry.
C5_Witness ==
    /\ variant = "MainApp"
    /\ pc = "done"
    /\ last.review = "resolved"
    /\ last.feedback = NoIssuesFound
    /\ Len(repoReviews) = 1

\* C6 (as claimed): a file whose content was fetched and decoded and whose
\* review text equals the sentinel once trimmed and lower-cased has no entry
\* in the review list.
C6_SentinelIgnoresCaseAndSpace ==
    (/\ last.decoded = "ok"
     /\ last.review = "resolved"
     /\ toLowerCase(trim(last.feedback)) = NoIssuesFoundLower) =>
        \A m \in 1..Len(ReportReviews) : ReportReviews[m].path # last.path

\* C7 (as claimed): a scan whose tree holds blobs, none of them reviewable,
\* never ends Done and publishes no summary.
C7_NoReviewableFilesAborts ==
    (fileTree # <<>> /\ reviewableFiles = <<>>) =>
        (pc # "done" /\ repoScanSummary = NoSummary)

C9_ReportWithinBounds ==
    /\ Len(reviewableFiles) <= Len(fileTree)
    /\ Len(ReportReviews) + Len(ReportErrors) <= Len(reviewableFiles)
    /\ Len(repoReviews) + Len(repoErrors) <= Len(reviewableFiles)
    /\ repoScanSummary # NoSummary =>
          /\ repoScanSummary.withIssues + repoScanSummary.errors
                <= repoScanSummary.analyzed
          /\ repoScanSummary.analyzed <= repoScanSummary.total
          /\ repoScanSummary.withIssues = Len(repoReviews)
          /\ repoScanSummary.errors = Len(repoErrors)

\* C9 witness: a published summary of a tree with two blobs, one of them
\* reviewable and reported.
C9_Witness ==
    /\ pc = "done"
    /\ repoScanSummary.total = 2
    /\ repoScanSummary.analyzed = 1
    /\ repoScanSummary.withIssues + repoScanSummary.errors = 1

\* C10: the reviewable files follow the order of the fetched tree; the paths
\* of the review entries, and those of the error entries, follow the order
\* of the reviewable files; no path has two entries.
C10_ReportFollowsTreeOrder ==
    /\ IsSubsequence(PathsOf(reviewableFiles), PathsOf(fileTree))
    /\ IsSubsequence(PathsOf(ReportReviews), PathsOf(reviewableFiles))
    /\ IsSubsequence(PathsOf(ReportErrors), PathsOf(reviewableFiles))
    /\ IsSubsequence(PathsOf(repoReviews), PathsOf(reviewableFiles))
    /\ IsSubsequence(PathsOf(repoErrors), PathsOf(reviewableFiles))
    /\ NoDuplicates(PathsOf(ReportReviews) \o PathsOf(ReportErrors))
    /\ NoDuplicates(PathsOf(repoReviews) \o PathsOf(repoErrors))

\* C10 witness: a finished MainApp scan that reported both of its files.
C10_Witness ==
    /\ variant = "MainApp"
    /\ pc = "done"
    /\ Len(repoReviews) = 2

\* For reference: C1 restricted to MainApp, where the inner catch holds.
MainAppIterationNeverAborts ==
    [][(variant = "MainApp" /\ Iterating) => pc' # "aborted"]_vars

\* The network operations of netLog: what was started and what settled.
NetEvents == SelectSeq(netLog, LAMBDA e : e.ev \in {"start", "settle"})

\* C11: within one scan the network operations alternate start, settle,
\* start, settle, each settlement being that of the operation started just
\* before it, so that at most one is in flight; the one in flight is the
\* one the handler awaits; and between the start of a review call and the
\* start of any later content fetch, that review call has settled.
C11_OneOperationInFlight ==
    LET net == NetEvents
    IN  /\ \A k \in 1..Len(net) :
              IF k % 2 = 1
              THEN net[k].ev = "start"
              ELSE /\ net[k].ev = "settle"
                   /\ net[k].op = net[k - 1].op
                   /\ net[k].arg = net[k - 1].arg
        /\ (request # NoRequest) <=> (Len(net) % 2 = 1)
        /\ request # NoRequest => net[Len(net)].op = request.kind
        /\ \A q \in 1..Len(net), p \in 1..Len(net) :
              (q < p /\ net[q].ev = "start" /\ net[q].op = "review"
                     /\ net[p].ev = "start" /\ net[p].op = "content") =>
                  \E r \in (q + 1)..(p - 1) :
                      /\ net[r].ev = "settle"
                      /\ net[r].op = "review"
                      /\ net[r].arg = net[q].arg

\* C11 witness: the content fetch of the second file is in flight, after the
\* review call of the first file resolved.
C11_Witness ==
    /\ pc = "content"
    /\ i = 1
    /\ Len(log) = 1
    /\ log[1][3] = "resolved"
    /\ request.kind = "content"
    /\ Len(NetEvents) = 11

TreeSteps == {"repo", "branch", "tree"}

\* The scan ended in URL resolution (nothing was requested) or in a tree
\* discovery step (the request answered last is one of the three, not ok).
FailedBeforeIterating ==
    /\ pc = "aborted"
    /\ \/ netLog = <<>>
       \/ /\ netLog[Len(netLog)].ev = "settle"
          /\ netLog[Len(netLog)].op \in TreeSteps
          /\ ~ResponseOk(netLog[Len(netLog)].status)

\* C12: a scan that failed in URL resolution or in tree discovery is Aborted
\* with an error message shown, loading switched off, no content fetch and
\* no review call ever started, and no results and no summary.
C12_EarlyFailureIsFatal ==
    FailedBeforeIterating =>
        /\ error # NULL
        /\ ~isLoading
        /\ request = NoRequest
        /\ \A k \in 1..Len(netLog) : netLog[k].op \in TreeSteps
        /\ log = <<>>
        /\ newReviews = <<>> /\ newErrors = <<>> /\ reviews = <<>>
        /\ repoReviews = <<>> /\ repoErrors = <<>>
        /\ repoScanSummary = NoSummary
        /\ repoProgress = NoProgress /\ reviewProgress = NoReviewProgress

\* C12 witness: a MainApp scan whose third tree-discovery request, the
\* recursive tree, was answered 500.
C12_Witness ==
    /\ variant = "MainApp"
    /\ pc = "aborted"
    /\ Len(netLog) = 6
    /\ netLog[6] = settled("tree", <<>>, 500)

\* For reference: URL resolution itself fails (App, which does not validate
\* the field).
UrlResolutionFailed ==
    /\ pc = "aborted"
    /\ netLog = <<>>
    /\ parseGitHubUrl(scanUrl) = <<>>

\* The error kind a message stands for.
ErrorKind(message) ==
    IF message = repoInfoError(404) THEN "NotFound"
    ELSE IF message \in {RateLimitMessage, getFileContent(<<>>, 403, <<>>).value}
    THEN "RateLimited"
    ELSE "UpstreamError"

\* The error kind claimed for a status that is not ok.
ClaimedKind(status) ==
    IF status = 404 THEN "NotFound"
    ELSE IF status = 403 THEN "RateLimited"
    ELSE "UpstreamError"

UpstreamSteps == {"repo", "branch", "tree", "content"}

\* The event a step adds to netLog first (it is the settlement the step
\* waited for), and the message of the error the step raised: the newest
\* per-file error for a MainApp content fetch, the shown error otherwise.
SettledNow == netLog'[Len(netLog) + 1]
RaisedNow ==
    IF SettledNow.op = "content" /\ variant = "MainApp"
    THEN newErrors'[Len(newErrors')].error
    ELSE error'

\* C13 (as claimed): whenever a repository, branch, tree or content request
\* is answered with a status that is not 2xx, the error raised is NotFound
\* for 404, RateLimited for 403 and UpstreamError for any other status.
C13_StatusMapsToSameKinds ==
    [][(/\ Len(netLog') > Len(netLog)
        /\ netLog # <<>>
        /\ SettledNow.ev = "settle"
        /\ SettledNow.op \in UpstreamSteps
        /\ ~ResponseOk(SettledNow.status)) =>
            ErrorKind(RaisedNow) = ClaimedKind(SettledNow.status)]_vars

\* For reference: the claimed mapping holds of the repository request.
RepoInfoStatusKinds ==
    [][(/\ Len(netLog') > Len(netLog)
        /\ netLog # <<>>
        /\ SettledNow.ev = "settle"
        /\ SettledNow.op = "repo"
        /\ ~ResponseOk(SettledNow.status)) =>
            ErrorKind(RaisedNow) = ClaimedKind(SettledNow.status)]_vars

\* For reference: 403 is RateLimited at every request.
RateLimitedEverywhere ==
    [][(/\ Len(netLog') > Len(netLog)
        /\ netLog # <<>>
        /\ SettledNow.ev = "settle"
        /\ SettledNow.op \in UpstreamSteps
        /\ SettledNow.status = 403) =>
            ErrorKind(RaisedNow) = "RateLimited"]_vars

PleaseProvideCode == <<"Please provide some code to review.">>

\* The entries of netLog about one file, in order.
EventsOf(path) == SelectSeq(netLog, LAMBDA e : e.arg = <<path>>)

\* C14: when reviewCode was invoked for a file with a credential and with
\* code that is empty or only whitespace, it returned the fixed message at
\* once: the invocation is followed directly by its return, and no review
\* call was started for the file.
C14_BlankCodeMakesNoCall ==
    (/\ last.args # <<>>
     /\ last.args[1] \notin {NULL, <<>>}
     /\ trim(last.args[2]) = <<>>) =>
        /\ last.review = "none"
        /\ last.feedback = PleaseProvideCode
        /\ request.kind # "review"
        /\ LET es == EventsOf(last.path)
           IN  /\ \A k \in 1..Len(es) : es[k].op # "review"
               /\ \E k \in 1..(Len(es) - 1) :
                     es[k].ev = "invoke" /\ es[k + 1].ev = "return"

\* C14 witness: a finished MainApp scan whose last file was empty; the fixed
\* message is its review entry.
C14_Witness ==
    /\ variant = "MainApp"
    /\ pc = "done"
    /\ last.decoded = "ok"
    /\ last.args # <<>>
    /\ last.args[2] = <<>>
    /\ Len(repoReviews) = 1
    /\ repoReviews[1].rawFeedback = PleaseProvideCode

\* The number of entries of es that start a review call.
CallsIn(es) == Len(SelectSeq(es, LAMBDA e : e.ev = "start" /\ e.op = "review"))

\* Whether the invocation recorded in es has come to its end.
Left(es) == \E k \in 1..Len(es) : es[k].ev \in {"return", "throw"}

\* C15 (as claimed): every invocation of reviewCode that has come to its end
\* started exactly one review call.
C15_ExactlyOneCall ==
    \A k \in 1..Len(netLog) :
        (netLog[k].ev = "invoke" /\ Left(EventsOf(netLog[k].arg[1]))) =>
            CallsIn(EventsOf(netLog[k].arg[1])) = 1

\* C15 (amended): every invocation of reviewCode starts at most one review
\* call and never a second one, whatever the call's outcome: what netLog
\* holds of a file from the invocation on is a prefix of invoke, start,
\* settle, return, or else invoke followed by throw or return; and the call
\* is made exactly when the credential is not empty and the code not blank.
C15_AtMostOneCallNoRetry ==
    /\ \A k \in 1..Len(netLog) :
          netLog[k].ev = "invoke" =>
              LET es   == EventsOf(netLog[k].arg[1])
                  from == CHOOSE m \in 1..Len(es) : es[m].ev = "invoke"
                  evs  == [m \in 1..(Len(es) - from + 1) |-> es[from + m - 1].ev]
              IN  /\ CallsIn(es) <= 1
                  /\ \/ evs = <<"invoke", "throw">>
                     \/ evs = <<"invoke", "return">>
                     \/ evs = <<"invoke", "start">>
                     \/ evs = <<"invoke", "start", "settle", "return">>
    /\ (last.args # <<>> /\ last.args[3] # OBJECT) =>
          (CallsIn(EventsOf(last.path)) = 1
              <=> (last.args[1] \notin {NULL, <<>>} /\ trim(last.args[2]) # <<>>))

\* C15 witness: a finished scan whose last review call was rejected; the
\* invocation returned after that single call.
C15_Witness ==
    /\ pc = "done"
    /\ last.review = "rejected"
    /\ CallsIn(EventsOf(last.path)) = 1
    /\ Left(EventsOf(last.path))

\* Whether text holds "github.com/", then one character or more that is no
\* slash, then a slash, then a character that is no slash.
ContainsRepoForm(text) ==
    \E p \in 1..Len(text), m \in 1..Len(text) :
        /\ p + Len(GithubPrefix) + m + 1 <= Len(text)
        /\ \A k \in 1..Len(GithubPrefix) : text[p + k - 1] = GithubPrefix[k]
        /\ \A k \in 1..m : text[p + Len(GithubPrefix) + k - 1] # "/"
        /\ text[p + Len(GithubPrefix) + m] = "/"
        /\ text[p + Len(GithubPrefix) + m + 1] # "/"

\* C16: parseGitHubUrl returns null for every text that does not contain
\* github.com/<owner>/<name> with both parts non-empty.
C16_NullWithoutRepoForm ==
    (call.fn = "parseGitHubUrl" /\ call.done /\ ~ContainsRepoForm(call.arg)) =>
        call.out = <<>>

\* C16 witness: null for a text that holds the host and one segment only,
\* "https://github.com/o/".
C16_Witness ==
    /\ call.fn = "parseGitHubUrl"
    /\ call.done
    /\ call.arg = HttpsGithubPrefix \o <<"o", "/">>
    /\ call.out = <<>>

\* The segments of text after "https://github.com/".
SegmentsOf(text) == split(slice(text, Len(HttpsGithubPrefix) + 1, Len(text)), "/")

\* text is https://github.com/<owner>/<repo>, a trailing slash or path or not.
IsRepoUrl(text) ==
    /\ startsWith(text, HttpsGithubPrefix)
    /\ Len(SegmentsOf(text)) >= 2
    /\ SegmentsOf(text)[1] # <<>>
    /\ SegmentsOf(text)[2] # <<>>

\* C17: for https://github.com/<owner>/<repo>, with or without a trailing
\* slash or path, parseGitHubUrl returns the owner and the repo segment of
\* the text, both non-empty and without a slash.
C17_OwnerAndRepoSegments ==
    (call.fn = "parseGitHubUrl" /\ call.done /\ IsRepoUrl(call.arg)) =>
        /\ Len(call.out) = 2
        /\ call.out[1] = SegmentsOf(call.arg)[1]
        /\ call.out[2] = SegmentsOf(call.arg)[2]
        /\ \A n \in 1..2 :
              /\ call.out[n] # <<>>
              /\ \A k \in 1..Len(call.out[n]) : call.out[n][k] # "/"

\* C17 witness: "https://github.com/o/r/tree/main" gives owner o, repo r.
C17_Witness ==
    /\ call.fn = "parseGitHubUrl"
    /\ call.done
    /\ call.arg = HttpsGithubPrefix \o <<"o", "/", "r", "/", "t", "r", "e", "e", "/", "m", "a", "i", "n">>
    /\ call.out = <<<<"o">>, <<"r">>>>

\* The characters of text after its last sep (all of text without one).
RECURSIVE AfterLast(_, _)
AfterLast(text, sep) ==
    IF \E k \in 1..Len(text) : text[k] = sep
    THEN AfterLast(Tail(text), sep)
    ELSE text

\* The languages LANGUAGE_MAP lists for a key: one, or none.
Mapped(key) == { e[2] : e \in { x \in LANGUAGE_MAP : x[1] = key } }

\* The final segment of the path applied, lower-cased.
FileName == toLowerCase(AfterLast(call.arg, "/"))

HasDot(text) == \E k \in 1..Len(text) : text[k] = "."

\* C18: getLanguageForFile decides on the lower-cased final segment alone:
\* its result is that of the lower-cased path and that of the final
\* segment; a segment that is a key of the table gets the key's language,
\* whatever its extension; any other segment with a dot gets the language
\* of "." and what follows its last dot, or null when that is no key.
C18_DecidesOnLowerCasedName ==
    (call.fn = "getLanguageForFile" /\ call.done) =>
        /\ call.out = getLanguageForFile(toLowerCase(call.arg))
        /\ call.out = getLanguageForFile(AfterLast(call.arg, "/"))
        /\ Mapped(FileName) # {} => call.out \in Mapped(FileName)
        /\ (Mapped(FileName) = {} /\ HasDot(FileName)) =>
              LET extension == <<".">> \o AfterLast(FileName, ".")
              IN  IF Mapped(extension) # {}
                  THEN call.out \in Mapped(extension)
                  ELSE call.out = NULL

\* C18 witness: "a.b/C/DOCKERFILE" is classified as "dockerfile" is.
C18_Witness ==
    /\ call.fn = "getLanguageForFile"
    /\ call.done
    /\ call.arg = <<"a", ".", "b", "/", "C", "/", "D", "O", "C", "K", "E", "R", "F", "I", "L", "E">>
    /\ call.out = <<"Dockerfile">>

\* The keys of LANGUAGE_MAP listed as filenames (lines 461-475).
SpecialFilenames ==
    { <<"d", "o", "c", "k", "e", "r", "f", "i", "l", "e">>,
      <<"m", "a", "k", "e", "f", "i", "l", "e">>,
      <<"g", "e", "m", "f", "i", "l", "e">>,
      <<"p", "i", "p", "f", "i", "l", "e">>,
      <<"r", "e", "q", "u", "i", "r", "e", "m", "e", "n", "t", "s", ".", "t", "x", "t">>,
      <<"p", "a", "c", "k", "a", "g", "e", ".", "j", "s", "o", "n">>,
      <<"p", "a", "c", "k", "a", "g", "e", "-", "l", "o", "c", "k", ".", "j", "s", "o", "n">>,
      <<"y", "a", "r", "n", ".", "l", "o", "c", "k">>,
      <<"c", "o", "m", "p", "o", "s", "e", "r", ".", "j", "s", "o", "n">>,
      <<".", "g", "i", "t", "i", "g", "n", "o", "r", "e">>,
      <<".", "d", "o", "c", "k", "e", "r", "i", "g", "n", "o", "r", "e">>,
      <<"j", "e", "n", "k", "i", "n", "s", "f", "i", "l", "e">>,
      <<"p", "r", "o", "c", "f", "i", "l", "e">>,
      <<".", "e", "n", "v">>,
      <<".", "e", "n", "v", ".", "e", "x", "a", "m", "p", "l", "e">> }

\* C19 (as claimed): a path whose final segment has no dot and is no special
\* filename is classified null.
C19_NoDotIsNull ==
    (/\ call.fn = "getLanguageForFile"
     /\ call.done
     /\ ~HasDot(FileName)
     /\ FileName \notin SpecialFilenames) =>
        call.out = NULL

\* For reference: README is classified null.
ReadmeIsNull ==
    (call.fn = "getLanguageForFile" /\ call.done
        /\ FileName = <<"r", "e", "a", "d", "m", "e">>) => call.out = NULL

\* Documentation and lockfiles named by the claim.
NonCodeFiles ==
    { <<"r", "e", "a", "d", "m", "e", ".", "m", "d">>,
      <<"p", "a", "c", "k", "a", "g", "e", "-", "l", "o", "c", "k", ".", "j", "s", "o", "n">>,
      <<"y", "a", "r", "n", ".", "l", "o", "c", "k">> }

\* C20 (as claimed): README.md, package-lock.json and yarn.lock are not
\* reviewable, by either isReviewableFile.
C20_NonCodeNotReviewable ==
    (/\ call.fn \in {"isReviewableFile", "isReviewableFileByExtension"}
     /\ call.done
     /\ FileName \in NonCodeFiles) =>
        call.out = FALSE

\* The positions of the upstream tree that hold a blob, and the m-th of them.
BlobPositions(tree) == {k \in 1..Len(tree) : tree[k].type = "blob"}
NthBlob(tree, m) ==
    CHOOSE k \in BlobPositions(tree) :
        Cardinality({j \in BlobPositions(tree) : j <= k}) = m

\* C21: once the recursive tree request was answered ok, what
\* fetchRepoFileTree returned holds one entry per blob of the upstream tree,
\* in upstream order, each with the blob's path, and no directory; this is
\* so whether or not the response is flagged truncated, and the scan is not
\* Aborted by the response (App aborts only for want of reviewable files).
C21_BlobsInUpstreamOrder ==
    response.op = "tree" =>
        LET tree == response.body.tree
        IN  /\ Len(fileTree) = Cardinality(BlobPositions(tree))
            /\ \A m \in 1..Len(fileTree) :
                  fileTree[m] = [path |-> tree[NthBlob(tree, m)].path]
            /\ \A k \in 1..Len(tree) :
                  tree[k].type = "tree" =>
                      \A m \in 1..Len(fileTree) : fileTree[m].path # tree[k].path
            /\ pc = "aborted" => (variant = "App" /\ reviewableFiles = <<>>)

\* C21 witness: a response flagged truncated that lists a directory and then
\* a file; the file alone was returned and its content is being fetched.
C21_Witness ==
    /\ response.op = "tree"
    /\ response.body.truncated
    /\ Len(response.body.tree) = 2
    /\ response.body.tree[1].type = "tree"
    /\ response.body.tree[2].type = "blob"
    /\ Len(fileTree) = 1
    /\ pc = "content"

\* What netLog holds of the three tree-discovery requests, in order.
DiscoveryEvents == SelectSeq(netLog, LAMBDA e : e.op \in TreeSteps)

DiscoveryOrder == <<"repo", "repo", "branch", "branch", "tree", "tree">>

\* C22: the tree-discovery requests of a scan are its first network
\* operations and come in the order metadata, branch, tree, each started
\* only after the one before it was answered ok; a request answered not ok
\* is the last thing the scan sent; the metadata request names the owner and
\* repository of the URL, the branch request the default branch read from
\* the metadata response, the tree request the tree identifier read from
\* the branch response.
C22_DiscoveryStepsInOrder ==
    LET steps == DiscoveryEvents
        parts == parseGitHubUrl(scanUrl)
    IN  /\ Len(steps) <= Len(DiscoveryOrder)
        /\ steps = SubSeq(netLog, 1, Len(steps))
        /\ \A k \in 1..Len(steps) :
              /\ steps[k].op = DiscoveryOrder[k]
              /\ steps[k].ev = (IF k % 2 = 1 THEN "start" ELSE "settle")
              /\ (steps[k].ev = "start" /\ k > 1) => ResponseOk(steps[k - 1].status)
              /\ (steps[k].ev = "settle" /\ ~ResponseOk(steps[k].status)) =>
                    /\ Len(netLog) = k
                    /\ request = NoRequest
                    /\ pc = "aborted"
        /\ request.kind = "repo" => request.target = parts
        /\ request.kind = "branch" =>
              /\ response.op = "repo"
              /\ request.target = <<parts[1], parts[2], response.body.default_branch>>
        /\ request.kind = "tree" =>
              /\ response.op = "branch"
              /\ request.target = <<parts[1], parts[2], response.body.sha>>

\* C22 witness: the branch request for "dev", the default branch the
\* metadata response named, is in flight.
C22_Witness ==
    /\ pc = "branchInfo"
    /\ request.kind = "branch"
    /\ response = [op |-> "repo", body |-> [default_branch |-> <<"dev">>]]
    /\ Len(netLog) = 3

\* For reference: a scan whose branch request was answered 500 sent no tree
\* request.
BranchFailureSendsNoTreeRequest ==
    /\ pc = "aborted"
    /\ Len(netLog) = 4
    /\ netLog[4] = settled("branch", <<>>, 500)

\* The number of per-file progress values the scan emitted so far: in
\* MainApp those from {1, total} on, in App every value.
FileProgressEmitted ==
    IF variant = "MainApp"
    THEN Len(SelectSeq(progressLog, LAMBDA p : p.current >= 1))
    ELSE Len(progressLog)

\* C23 (as claimed): the progress value of the file at index k is emitted
\* only once that file was processed, its content fetch and review call
\* resolved, and before the content fetch of the next file starts: at any
\* moment there are no more per-file progress values than processed files,
\* and while the file at index i is fetched or reviewed, the values of the
\* i files before it are out.
C23_ProgressAfterFile ==
    /\ FileProgressEmitted <= Len(log)
    /\ Iterating => FileProgressEmitted >= i

\* For reference: the progress value of a file is emitted before its
\* content fetch starts, so that it runs one ahead of the processed files.
ProgressBeforeFile ==
    /\ Iterating => (Len(log) = i /\ FileProgressEmitted = i + 1)
    /\ pc = "done" => FileProgressEmitted = Len(log)

\* For reference: the last file is in flight while the progress reads
\* {total, total}.
FullProgressWhileFetching ==
    /\ variant = "MainApp"
    /\ pc = "content"
    /\ repoProgress = [current |-> 2, total |-> 2]
    /\ Len(log) = 1

\* C24: provided every network operation in flight settles in the end, a
\* running scan always comes to Done or Aborted.  The files processed so
\* far are the first reviewable files, each once and in order; a scan that
\* is Done processed all of them, and in MainApp it published its report
\* and summary.
C24_ScanTerminates ==
    /\ [](/\ Len(log) <= Len(reviewableFiles)
          /\ \A k \in 1..Len(log) : log[k][1] = reviewableFiles[k].path
          /\ NoDuplicates([k \in 1..Len(log) |-> log[k][1]])
          /\ Iterating => Len(log) = i
          /\ pc = "done" =>
                /\ Len(log) = Len(reviewableFiles)
                /\ variant = "MainApp" =>
                      /\ repoScanSummary =
                            scanSummary(fileTree, reviewableFiles, newReviews, newErrors)
                      /\ repoReviews = newReviews
                      /\ repoErrors = newErrors)
    /\ (Running ~> (pc \in {"done", "aborted"}))

\* C24 witness: a MainApp scan of two files is Done, the first file's fetch
\* having failed and the second file's review call having been rejected.
C24_Witness ==
    /\ variant = "MainApp"
    /\ pc = "done"
    /\ Len(log) = 2
    /\ log[1][2] = 500
    /\ log[2][3] = "rejected"
    /\ repoScanSummary # NoSummary

\* The number of settlements a running scan can still wait for, at most.
StepsLeft ==
    IF pc = "repoInfo" THEN 2 * MaxTree + 3
    ELSE IF pc = "branchInfo" THEN 2 * MaxTree + 2
    ELSE IF pc = "treeData" THEN 2 * MaxTree + 1
    ELSE IF pc = "content" THEN 2 * (Len(reviewableFiles) - i)
    ELSE IF pc = "review" THEN 2 * (Len(reviewableFiles) - i) - 1
    ELSE 0

\* For reference: every settlement brings a running scan nearer its end, so
\* that no scan waits for more than 2 * MaxTree + 3 of them.
SettlementsAreCounted ==
    [][(Running /\ netLog' # netLog) =>
          /\ StepsLeft > 0
          /\ StepsLeft' >= 0
          /\ StepsLeft' < StepsLeft]_vars

\* C25: while a scan is running the loading flag is set, from the step that
\* starts the first request on; once the scan is Done or Aborted the flag
\* is off and the progress value is null again, whatever failed; and so it
\* is before any scan.
C25_LoadingWhileRunning ==
    /\ Running => isLoading
    /\ netLog # <<>> /\ ~isLoading => pc \in {"done", "aborted"}
    /\ ~Running =>
          /\ ~isLoading
          /\ repoProgress = NoProgress
          /\ reviewProgress = NoReviewProgress

\* C25 witness: a MainApp scan is Done after both of its files failed.
C25_Witness ==
    /\ variant = "MainApp"
    /\ pc = "done"
    /\ Len(repoErrors) = 2
    /\ ~isLoading
    /\ repoProgress = NoProgress

\* For reference: an App scan is Aborted by a file's failed fetch, after it
\* showed progress; the flag is off and the progress null.
AbortedWhileIterating ==
    /\ variant = "App"
    /\ pc = "aborted"
    /\ Len(log) = 2
    /\ ~isLoading
    /\ reviewProgress = NoReviewProgress

\* C26: in MainApp, once the effect on [apiKey, viewMode] has run and left
\* nothing to run, the settings tab is shown exactly when no API key is set,
\* and localStorage's 'gemini-api-key' entry is the key when one is set and
\* absent when none is.
C26_SettingsIffNoKey ==
    ~effectPending =>
        /\ (viewMode = "settings") <=> (apiKey = NULL)
        /\ storedKey = apiKey
        /\ apiKey # <<>>

\* C26 witness: the key k2 was saved, the effect has run and stored it, and
\* the Git Repo tab is shown.
C26_Witness ==
    /\ ~effectPending
    /\ apiKey = <<"k", "2">>
    /\ storedKey = <<"k", "2">>
    /\ viewMode = "repo"

\* For reference: the key was cleared and the effect has yet to remove the
\* stored entry.
KeyClearedNotYetRemoved ==
    /\ apiKey = NULL
    /\ storedKey # NULL
    /\ effectPending

\* The decoded content of the file processed last (its fetch was ok and its
\* payload decoded).  MainApp passes it to reviewCode second, App first; App
\* does not invoke reviewCode for content it skips, which in this model is
\* the empty text.
FetchedContent ==
    IF variant = "MainApp" THEN last.args[2]
    ELSE IF last.args = <<>> THEN <<>>
    ELSE last.args[1]

BlankFile == last.decoded = "ok" /\ trim(FetchedContent) = <<>>

HasReviewEntry(path) ==
    \/ \E m \in 1..Len(ReportReviews) : ReportReviews[m].path = path
    \/ \E m \in 1..Len(repoReviews) : repoReviews[m].path = path

\* C27 (as claimed): for a file whose fetched content is empty or only
\* whitespace, no review call is started and no review entry is added.
C27_BlankFileNotReported ==
    BlankFile =>
        /\ CallsIn(EventsOf(last.path)) = 0
        /\ ~HasReviewEntry(last.path)

\* For reference: in MainApp no review call is started for such a file.
MainAppBlankFileMakesNoCall ==
    (variant = "MainApp" /\ BlankFile) => CallsIn(EventsOf(last.path)) = 0

\* For reference: in MainApp such a file always gets a review entry, the
\* fixed message of reviewCode.
MainAppBlankFileIsReported ==
    (variant = "MainApp" /\ BlankFile) =>
        /\ last.feedback = PleaseProvideCode
        /\ HasReviewEntry(last.path)

\* For reference: App skips an empty file, with no call and no entry.
AppEmptyFileIsSkipped ==
    (variant = "App" /\ last.decoded = "ok" /\ FetchedContent = <<>>) =>
        /\ CallsIn(EventsOf(last.path)) = 0
        /\ ~HasReviewEntry(last.path)

\* For reference: App starts a review call for a file that holds only
\* whitespace.
AppWhitespaceFileIsSent ==
    /\ variant = "App"
    /\ BlankFile
    /\ FetchedContent # <<>>
    /\ CallsIn(EventsOf(last.path)) = 1

\* MainApp refuses a scan request: no key is set, or the URL field is empty
\* or flagged invalid.
Refused ==
    /\ variant = "MainApp"
    /\ Idle
    /\ (apiKey \in {NULL, <<>>} \/ ~isRepoUrlValid \/ repoUrl = <<>>)

ApiKeyNotSet == <<"API Key is not set. Please set it in the Settings tab.">>

\* C28: in MainApp, while a scan request would be refused, no step starts a
\* network request or changes the loading flag, the progress, the results,
\* the error list or the summary; and a step that changes the error message
\* is the refusal for want of a key, which sets its message and changes
\* nothing else.
C28_RefusedRequestChangesNothing ==
    [][Refused =>
          /\ UNCHANGED <<netLog, request, pc, isLoading, repoProgress, repoReviews,
                         repoErrors, repoScanSummary>>
          /\ error' # error =>
                /\ apiKey \in {NULL, <<>>}
                /\ error' = ApiKeyNotSet
                /\ UNCHANGED <<variant, apiKey, repoUrl, isRepoUrlValid, isLoading,
                               repoReviews, repoErrors, repoProgress, repoScanSummary,
                               reviews, reviewProgress, pc, request, scanUrl, scanKey,
                               urlParts, fileTree, reviewableFiles, i, newReviews,
                               newErrors, progressLog, log, last, netLog, response,
                               call, viewMode, tempApiKey, storedKey,
                               effectPending>>]_vars

\* C28 witness: MainApp without a key refused a scan request for a valid URL;
\* only the message shows it.
C28_Witness ==
    /\ variant = "MainApp"
    /\ apiKey = NULL
    /\ error = ApiKeyNotSet
    /\ GITHUB_URL_REGEX_test(repoUrl)
    /\ netLog = <<>>
    /\ ~isLoading
    /\ pc = "idle"

\* For reference: MainApp with a key, the results of a finished scan on
\* display and the URL field flagged invalid; a scan request made now is
\* refused and leaves them as they are.
RefusedWithResultsShown ==
    /\ Refused
    /\ apiKey # NULL
    /\ pc = "done"
    /\ repoReviews # <<>>
    /\ ~isRepoUrlValid

====
